---- MODULE Spec2Model ----
(***************************************************************************)
(* The micro-batching scheduler of src/ml-api/ml_api.py: EmbedBatcher and  *)
(* RerankBatcher.  One behaviour follows one scheduler instance; `kind`    *)
(* says which of the two classes it is.  The model covers the caller side  *)
(* (process: create the future, queue.put, await the future), the          *)
(* scheduler loop (_process_loop), the batch run (_run_batch: flatten,     *)
(* run_in_executor, dispatch) and the lifecycle (start, stop).             *)
(*                                                                         *)
(* A WorkItem is identified by the number i of the process() call that     *)
(* made it; its sub-units are <<i, 1>> .. <<i, cnt[i]>>.  The queue holds   *)
(* item numbers; the tuple (texts, future) of the code is (cnt[i],         *)
(* handle[i]).  Time is the remaining part of the batch window, counted in *)
(* ticks.  The numeric knobs of the code (32/16 items per batch, 500/100   *)
(* queue slots, 10/20 ms) are scaled down.                                  *)
(***************************************************************************)
EXTENDS Integers, Sequences, FiniteSets, TLC

\* ----------------------------------------------------------------- bounds
\* number of process() calls in one behaviour
MaxItems == 2
\* largest number of sub-units of one WorkItem
MaxSubUnits == 2
\* scaled EMBED_MAX_BATCH_SIZE (32), RERANK_MAX_BATCH_SIZE (16): WorkItems per batch
EMBED_MAX_BATCH_SIZE == 2
RERANK_MAX_BATCH_SIZE == 2
\* scaled EMBED_MAX_QUEUE_SIZE (500), RERANK_MAX_QUEUE_SIZE (100)
EMBED_MAX_QUEUE_SIZE == 2
RERANK_MAX_QUEUE_SIZE == 1
\* scaled EMBED_BATCH_TIMEOUT_S (0.01), RERANK_BATCH_TIMEOUT_S (0.02), in ticks
EMBED_BATCH_TIMEOUT_S == 2
RERANK_BATCH_TIMEOUT_S == 2
\* the reranker scores the pairs of one WorkItem with values 1..MaxScore
MaxScore == 2
\* number of stop() calls in one behaviour
MaxStops == 2
\* number of loop tasks that start() calls leave running beside the one followed
MaxExtraLoops == 1
\* largest max_size an EmbeddingCache is built with
MaxCacheSize == 2
\* number of embed_single calls of the ML API client in one behaviour
MaxEmbedCalls == 3
\* largest max_turns a HistoryManager is built with
MaxTurns == 1
\* number of messages added to one user's conversation between two clears
MaxMessages == 3
\* number of child chunks of the largest document
MaxChunks == 2
\* number of ingestions (sample files visited and uploads) in one behaviour
MaxIngestions == 4
\* scaled MAX_FILE_SIZE (10 * 1024 * 1024 bytes), in MB
MAX_FILE_SIZE == 10

VARIABLES
    kind,             \* "embed" or "rerank": the class of this instance
    pc,               \* position of the _process_loop task
    queue,            \* self.queue: item numbers, head first
    batch_data,       \* local batch_data of _process_loop / _run_batch
    remaining,        \* deadline - loop.time(), in ticks
    all_texts,        \* all_texts / all_pairs of _run_batch
    request_indices,  \* request_indices / request_boundaries of _run_batch
    inflight,         \* executor calls running in the thread pool
    exec_out,         \* outcome of the run_in_executor future: <<>> or <<outcome>>
    cnt,              \* cnt[i]: number of sub-units of item i (0: not submitted)
    caller,           \* caller[i]: position of the i-th process() call
    handle,           \* handle[i]: the future of item i
    enq_order,        \* history: items in the order queue.put completed
    batch_of,         \* history: batch_of[i] = number of the batch that took i
    batch_no,         \* history: number of batches the loop has begun
    blocked,          \* history: items whose caller had to wait in queue.put
    exec_mark,        \* history: Len(enq_order) when the running batch was handed to the executor
    last,             \* history: the batch dispatched last, <<>> or <<record>>
    runs,             \* history: runs[i] = executor invocations whose input held item i
    deadline_mark,    \* history: Len(enq_order) when the deadline of this cycle passed, else -1
    task_end,         \* how the _process_loop task ended: "none", "finished", "cancelled"
    stops,            \* history: number of stop() calls made
    stop_raised,      \* history: a stop() call raised instead of returning
    extra_loops,      \* live _process_loop tasks beside the one pc describes
    bound_extra,      \* processing_loop_task is one of those tasks: "no", "live", "ended"
    peer,             \* the other batcher instance of the module: a record of its
                      \* variables, or NoPeer where one instance is followed
    http_status,      \* status of the last request an endpoint refused, 0 if none
    max_size,         \* EmbeddingCache.max_size
    cache,            \* EmbeddingCache._cache: [key, val] records, least recently used first
    cache_op,         \* history: the last cache operation: its key, whether the cache held
                      \* the key, what was returned, whether KeyError was raised
    embed_calls,      \* history: number of ml_client.embed_single calls
    use_order,        \* history: the keys in the cache, least recently used first
    max_turns,        \* HistoryManager.max_turns
    conversations,    \* HistoryManager._conversations: per user id, whether the dict has
                      \* the key, and the Conversation's messages
    added,            \* history: added[u] = messages added for u since u's last clear
    messaged,         \* history: users a message was added for since the last clear_all
    asking,           \* users whose /ask waits for the orchestrator
    reply,            \* history: what the last /ask handler step replied
    chunks_db,        \* the points of the Qdrant collection "chunks"
    parents_db,       \* the points of the Qdrant collection "parents"
    ingest,           \* the ingestion under way: its position, document and caller
    seeds,            \* sample files seed_sample_documents has still to visit
    outcome,          \* history: how the last ingestion ended, and at which position
    ingestions        \* history: number of ingestions begun

vars == <<kind, pc, queue, batch_data, remaining, all_texts, request_indices,
          inflight, exec_out, cnt, caller, handle, enq_order, batch_of,
          batch_no, blocked, exec_mark, last, runs, deadline_mark, task_end,
          stops, stop_raised, extra_loops, bound_extra, peer, http_status, max_size, cache, cache_op, embed_calls, use_order,
          max_turns, conversations, added, messaged, asking, reply,
          chunks_db, parents_db, ingest, seeds, outcome, ingestions>>

Items == 1..MaxItems
\* Telegram user ids
Users == {101, 102}
\* the sizes of the text / document lists the callers pass: one, or the largest
SubUnitCounts == {1, MaxSubUnits}

\* ------------------------------------------------------------ configuration
MaxBatchSize == IF kind = "embed" THEN EMBED_MAX_BATCH_SIZE ELSE RERANK_MAX_BATCH_SIZE
MaxQueueSize == IF kind = "embed" THEN EMBED_MAX_QUEUE_SIZE ELSE RERANK_MAX_QUEUE_SIZE
BatchTimeout == IF kind = "embed" THEN EMBED_BATCH_TIMEOUT_S ELSE RERANK_BATCH_TIMEOUT_S

\* ------------------------------------------------------------------ futures
\* asyncio.Future: _state, _result, _exception.  <<>> stands for None.
NoFuture == [state |-> "NONE", result |-> <<>>, exception |-> <<>>]
NewFuture == [state |-> "PENDING", result |-> <<>>, exception |-> <<>>]
Done(f) == f.state \in {"FINISHED", "CANCELLED"}

\* Future.set_result / set_exception raise InvalidStateError unless the
\* future is pending
InvalidState(f) == f.state # "PENDING"

\* if not future.done(): future.set_result(r)
SetResult_noop(f, r) == f
SetResult(f, r) == IF Done(f) THEN f ELSE [f EXCEPT !.state = "FINISHED", !.result = <<r>>]

SetException_unguarded(f, e) == [f EXCEPT !.state = "FINISHED", !.exception = <<e>>]
\* if not future.done(): future.set_exception(e)
SetException(f, e) == IF Done(f) THEN f ELSE [f EXCEPT !.state = "FINISHED", !.exception = <<e>>]

\* ------------------------------------------------------------------- queue
QueueFull_unbounded(q) == FALSE
\* asyncio.Queue(maxsize).full()
QueueFull(q) == Len(q) >= MaxQueueSize

QueueGet_lifo(q) == [item |-> q[Len(q)], rest |-> SubSeq(q, 1, Len(q) - 1)]
\* asyncio.Queue.get(): the oldest item
QueueGet(q) == [item |-> Head(q), rest |-> Tail(q)]

\* ------------------------------------------------------------- _run_batch
\* the sub-units of item i: its texts, or its [query, doc] pairs
Texts(i, n) == [j \in 1..n |-> <<i, j>>]

\* Python x[start:end]
Slice_whole(x, start, end) == x
Slice(x, start, end) == SubSeq(x, start + 1, end)

RECURSIVE FlattenLoop_nostep(_, _)
FlattenLoop_nostep(tl, st) ==
    IF tl = <<>> THEN st
    ELSE FlattenLoop_nostep(Tail(tl),
            [all_texts |-> st.all_texts \o Head(tl),
             request_indices |-> Append(st.request_indices,
                                        <<st.start_idx, st.start_idx + Len(Head(tl))>>),
             start_idx |-> st.start_idx])

\* the for loop of _run_batch over the text lists tl of the batch
RECURSIVE FlattenLoop(_, _)
FlattenLoop(tl, st) ==
    IF tl = <<>> THEN st
    ELSE FlattenLoop(Tail(tl),
            [all_texts |-> st.all_texts \o Head(tl),
             request_indices |-> Append(st.request_indices,
                                        <<st.start_idx, st.start_idx + Len(Head(tl))>>),
             start_idx |-> st.start_idx + Len(Head(tl))])

Flatten(tl) == FlattenLoop(tl, [all_texts |-> <<>>, request_indices |-> <<>>, start_idx |-> 0])

BatchTexts_reversed(bd, c) ==
    [k \in 1..Len(bd) |-> Texts(bd[Len(bd) + 1 - k], c[bd[Len(bd) + 1 - k]])]
BatchTexts(bd, c) == [k \in 1..Len(bd) |-> Texts(bd[k], c[bd[k]])]

\* run_embed_inference_sync: one dense and one sparse vector per text
EmbedOutput(texts) ==
    [ok |-> TRUE,
     dense |-> [k \in 1..Len(texts) |-> <<"dense", texts[k]>>],
     sparse |-> [k \in 1..Len(texts) |-> <<"sparse", texts[k]>>],
     scores |-> <<>>, err |-> <<>>]

\* reranker.compute_score: one score per pair.  g gives the score of the j-th
\* document of a WorkItem within the band of scores of that WorkItem, so that
\* every order and every tie among the documents of one WorkItem occurs and
\* the scores of different WorkItems differ.
RerankOutput(texts, g) ==
    [ok |-> TRUE, dense |-> <<>>, sparse |-> <<>>,
     scores |-> [k \in 1..Len(texts) |-> MaxScore * texts[k][1] + g[texts[k][2]]],
     err |-> <<>>]

ExecError(e) == [ok |-> FALSE, dense |-> <<>>, sparse |-> <<>>, scores |-> <<>>, err |-> <<e>>]

\* list(enumerate(doc_scores)), indices from 0
Enumerate(s) == [k \in 1..Len(s) |-> <<k - 1, s[k]>>]

\* insert p into a list sorted by descending score, after its equals (stable)
RECURSIVE InsertDesc(_, _)
InsertDesc(s, p) ==
    IF s = <<>> THEN <<p>>
    ELSE IF Head(s)[2] >= p[2] THEN <<Head(s)>> \o InsertDesc(Tail(s), p)
    ELSE <<p>> \o s

SortDesc_unsorted(s) == s

\* indexed_scores.sort(key=lambda x: x[1], reverse=True)
RECURSIVE SortDesc(_)
SortDesc(s) == IF s = <<>> THEN <<>> ELSE InsertDesc(SortDesc(SubSeq(s, 1, Len(s) - 1)), s[Len(s)])

\* the response object whose batch_size is the item's own number of sub-units
Response_own_count(k, out, idx, texts) ==
    IF kind = "embed"
    THEN [dense_vecs |-> Slice(out.dense, idx[k][1], idx[k][2]),
          sparse_vecs |-> Slice(out.sparse, idx[k][1], idx[k][2]),
          results |-> <<>>,
          batch_size |-> idx[k][2] - idx[k][1]]
    ELSE [dense_vecs |-> <<>>, sparse_vecs |-> <<>>,
          results |-> SortDesc(Enumerate(Slice(out.scores, idx[k][1], idx[k][2]))),
          batch_size |-> idx[k][2] - idx[k][1]]

\* the response object of the k-th item of the batch
Response(k, out, idx, texts) ==
    IF kind = "embed"
    THEN [dense_vecs |-> Slice(out.dense, idx[k][1], idx[k][2]),
          sparse_vecs |-> Slice(out.sparse, idx[k][1], idx[k][2]),
          results |-> <<>>,
          batch_size |-> Len(texts)]
    ELSE [dense_vecs |-> <<>>, sparse_vecs |-> <<>>,
          results |-> SortDesc(Enumerate(Slice(out.scores, idx[k][1], idx[k][2]))),
          batch_size |-> Len(texts)]

PosIn(bd, i) == CHOOSE k \in 1..Len(bd) : bd[k] = i
InBatch(bd, i) == \E k \in 1..Len(bd) : bd[k] = i

DispatchSuccess_skip_first(h, bd, out, idx, texts) ==
    [i \in Items |-> IF InBatch(bd, i) /\ PosIn(bd, i) > 1
                     THEN SetResult(h[i], Response(PosIn(bd, i), out, idx, texts))
                     ELSE h[i]]
\* for i, (_, future) in enumerate(batch_data): set_result(response_obj)
DispatchSuccess(h, bd, out, idx, texts) ==
    [i \in Items |-> IF InBatch(bd, i)
                     THEN SetResult(h[i], Response(PosIn(bd, i), out, idx, texts))
                     ELSE h[i]]

\* the except branch without the done() test
DispatchFailure_unguarded(h, bd, e) ==
    [i \in Items |-> IF InBatch(bd, i)
                     THEN [h[i] EXCEPT !.state = "FINISHED", !.exception = <<e>>]
                     ELSE h[i]]

DispatchFailure_first(h, bd, e) ==
    [i \in Items |-> IF bd # <<>> /\ bd[1] = i THEN SetException(h[i], e) ELSE h[i]]
\* except Exception as e: for each future of the batch, set_exception(e)
DispatchFailure(h, bd, e) ==
    [i \in Items |-> IF InBatch(bd, i) THEN SetException(h[i], e) ELSE h[i]]

\* a dispatch over the batch bd raises InvalidStateError: it calls set_result
\* or set_exception, which it does for a future that is not done(), on a
\* future that is not pending
DispatchRaises(h, bd) ==
    \E k \in 1..Len(bd) : ~Done(h[bd[k]]) /\ InvalidState(h[bd[k]])

\* ---------------------------------------------------------------- documents
\* a file: its name, suffix, size in MB and bytes (files with equal bytes have
\* equal content)
NoDoc == [name |-> "", ext |-> "", size |-> 0, bytes |-> 0]
Docs ==
    {[name |-> "a.md", ext |-> ".md", size |-> 1, bytes |-> 1],
     [name |-> "a.txt", ext |-> ".txt", size |-> 1, bytes |-> 1],
     [name |-> "b.md", ext |-> ".md", size |-> 1, bytes |-> 2],
     [name |-> "blank.txt", ext |-> ".txt", size |-> 1, bytes |-> 3],
     [name |-> "titles.md", ext |-> ".md", size |-> 1, bytes |-> 4],
     [name |-> "c.exe", ext |-> ".exe", size |-> 1, bytes |-> 5],
     [name |-> "big.pdf", ext |-> ".pdf", size |-> MAX_FILE_SIZE + 1, bytes |-> 6]}

\* SAMPLE_DOCS_DIR.glob("*.md") + SAMPLE_DOCS_DIR.glob("*.txt")
SampleDocs ==
    <<[name |-> "a.md", ext |-> ".md", size |-> 1, bytes |-> 1],
      [name |-> "blank.txt", ext |-> ".txt", size |-> 1, bytes |-> 3]>>

ALLOWED_EXTENSIONS == {".pdf", ".txt", ".md", ".docx", ".doc", ".epub"}

\* hashlib.sha256(f.read()).hexdigest(): one digest per content
Sha256(bytes) == <<"sha256", bytes>>

\* MarkItDown().convert(path).text_content is not blank
HasText(bytes) == bytes \in {1, 2, 4}

\* number of child chunks chunk_document makes of the text: none of a text of
\* headers only
ChildCount(bytes) == CASE bytes = 1 -> MaxChunks [] bytes = 2 -> 1 [] OTHER -> 0

\* chunk_document: the parents and children carry the file hash; every id is a
\* digest of the file hash and the chunk's place, so equal files give equal ids
Parents(bytes) ==
    IF ChildCount(bytes) = 0 THEN {}
    ELSE {[id |-> <<Sha256(bytes), "parent", 1>>, file_hash |-> Sha256(bytes)]}
Children(bytes) ==
    {[id |-> <<Sha256(bytes), "child", k>>, file_hash |-> Sha256(bytes)] :
        k \in 1..ChildCount(bytes)}

\* QdrantDB(): the collections as first created, no ingestion under way
InitIngest ==
    /\ chunks_db = {}
    /\ parents_db = {}
    /\ ingest = [pc |-> "none", doc |-> NoDoc, source |-> "none"]
    /\ seeds = SampleDocs
    /\ outcome = [result |-> "none", doc |-> NoDoc, stage |-> "none"]
    /\ ingestions = 0

\* --------------------------------------------------------------------- Init
\* no other instance is followed
NoPeer == [kind |-> "none"]

InitBatcher ==
    /\ kind \in {"embed", "rerank"}
    /\ pc = "not_started"
    /\ queue = <<>>
    /\ batch_data = <<>>
    /\ remaining = 0
    /\ all_texts = <<>>
    /\ request_indices = <<>>
    /\ inflight = 0
    /\ exec_out = <<>>
    /\ cnt = [i \in Items |-> 0]
    /\ caller = [i \in Items |-> "new"]
    /\ handle = [i \in Items |-> NoFuture]
    /\ enq_order = <<>>
    /\ batch_of = [i \in Items |-> 0]
    /\ batch_no = 0
    /\ blocked = {}
    /\ exec_mark = 0
    /\ last = <<>>
    /\ runs = [i \in Items |-> 0]
    /\ deadline_mark = -1
    /\ task_end = "none"
    /\ stops = 0
    /\ stop_raised = FALSE
    /\ extra_loops = 0
    /\ bound_extra = "no"
    /\ http_status = 0

\* EmbeddingCache(max_size=m): empty
InitCache(m) ==
    /\ max_size = m
    /\ cache = <<>>
    /\ cache_op = [op |-> "none", key |-> <<>>, found |-> FALSE, ret |-> <<>>, raised |-> FALSE]
    /\ embed_calls = 0
    /\ use_order = <<>>

\* HistoryManager(max_turns=t): no conversation
InitHistory(t) ==
    /\ max_turns = t
    /\ conversations = [u \in Users |-> [present |-> FALSE, messages |-> <<>>]]
    /\ added = [u \in Users |-> <<>>]
    /\ messaged = {}
    /\ asking = {}
    /\ reply = "none"

Init ==
    /\ InitBatcher
    /\ peer = NoPeer
    /\ InitIngest
    /\ InitCache(MaxCacheSize)
    /\ InitHistory(MaxTurns)

loopVars == <<pc, batch_data, remaining, all_texts, request_indices, inflight,
              exec_out, batch_of, batch_no, exec_mark, last, runs, deadline_mark>>
restartVars == <<extra_loops, bound_extra>>
lifeVars == <<task_end, stops, stop_raised, restartVars>>
\* state outside the batchers
cacheVars == <<max_size, cache, cache_op, embed_calls, use_order>>
histVars == <<max_turns, conversations, added, messaged, asking, reply>>
ingestVars == <<chunks_db, parents_db, ingest, seeds, outcome, ingestions>>
hostVars == <<http_status, cacheVars, histVars, ingestVars>>
appVars == <<hostVars, peer>>
callerVars == <<queue, cnt, caller, handle, enq_order, blocked>>
batcherVars == <<kind, callerVars, loopVars, lifeVars, http_status, peer>>

\* ------------------------------------------------------------ lifecycle
\* lifespan: await embed_batcher.start() / rerank_batcher.start()
Start ==
    /\ pc = "not_started"
    /\ pc' = "idle"
    /\ UNCHANGED <<kind, queue, batch_data, remaining, all_texts, request_indices,
                   inflight, exec_out, cnt, caller, blocked, handle, enq_order, batch_of,
                   batch_no, exec_mark, last, runs, deadline_mark>>
    /\ UNCHANGED lifeVars
    /\ UNCHANGED appVars

\* await self.processing_loop_task inside stop(): a task that was cancelled
\* raises CancelledError, which stop() catches; a task that returned gives
\* None; only a task that died of another exception makes stop() raise
StopRaises_nocatch(hasTask, end) == hasTask /\ end \in {"cancelled", "exception"}
StopRaises(hasTask, end) == hasTask /\ end = "exception"

\* how the loop task ends when cancelled at position p: `break` (line 105)
\* and `return` (line 118) end it normally; inside _run_batch the
\* CancelledError passes `except Exception` and the task ends cancelled
TaskEnd(p) == IF p \in {"idle", "collecting"} THEN "finished" ELSE "cancelled"

\* stop() that hands the partly collected batch to the executor before the
\* loop ends
Stop_flush ==
    /\ pc \in {"idle", "collecting", "executing", "returned"}
    /\ bound_extra = "no"
    /\ stops < MaxStops
    /\ pc' = "stopped"
    /\ batch_data' = <<>>
    /\ remaining' = 0
    /\ all_texts' = <<>>
    /\ request_indices' = <<>>
    /\ exec_out' = <<>>
    /\ exec_mark' = 0
    /\ deadline_mark' = -1
    /\ task_end' = TaskEnd(pc)
    /\ stops' = stops + 1
    /\ stop_raised' = (stop_raised \/ StopRaises(TRUE, TaskEnd(pc)))
    /\ inflight' = IF pc = "collecting" THEN inflight + 1 ELSE inflight
    /\ runs' = [i \in Items |-> IF pc = "collecting" /\ InBatch(batch_data, i)
                                THEN runs[i] + 1 ELSE runs[i]]
    /\ UNCHANGED <<kind, queue, cnt, caller, blocked, handle, enq_order, batch_of,
                   batch_no, last>>
    /\ UNCHANGED restartVars
    /\ UNCHANGED appVars

\* stop() whose cancellation does not reach a loop waiting in queue.get()
Stop_busy_only ==
    /\ pc \in {"collecting", "executing", "returned"}
    /\ bound_extra = "no"
    /\ stops < MaxStops
    /\ pc' = "stopped"
    /\ batch_data' = <<>>
    /\ remaining' = 0
    /\ all_texts' = <<>>
    /\ request_indices' = <<>>
    /\ exec_out' = <<>>
    /\ exec_mark' = 0
    /\ deadline_mark' = -1
    /\ task_end' = TaskEnd(pc)
    /\ stops' = stops + 1
    /\ stop_raised' = (stop_raised \/ StopRaises(TRUE, TaskEnd(pc)))
    /\ UNCHANGED <<kind, queue, inflight, cnt, caller, blocked, handle, enq_order, batch_of,
                   batch_no, last, runs>>
    /\ UNCHANGED restartVars
    /\ UNCHANGED appVars

\* stop(): processing_loop_task.cancel(), then await it.  CancelledError ends
\* the loop at whichever await it is suspended in: break (line 105), return
\* (line 118), or, inside _run_batch, past `except Exception` (CancelledError
\* is not an Exception).  The executor thread is not interrupted.
Stop ==
    /\ pc \in {"idle", "collecting", "executing", "returned"}
    /\ bound_extra = "no"
    /\ stops < MaxStops
    /\ pc' = "stopped"
    /\ batch_data' = <<>>
    /\ remaining' = 0
    /\ all_texts' = <<>>
    /\ request_indices' = <<>>
    /\ exec_out' = <<>>
    /\ exec_mark' = 0
    /\ deadline_mark' = -1
    /\ task_end' = TaskEnd(pc)
    /\ stops' = stops + 1
    /\ stop_raised' = (stop_raised \/ StopRaises(TRUE, TaskEnd(pc)))
    /\ UNCHANGED <<kind, queue, inflight, cnt, caller, blocked, handle, enq_order, batch_of,
                   batch_no, last, runs>>
    /\ UNCHANGED restartVars
    /\ UNCHANGED appVars

\* ------------------------------------------------------------ process()
NextItem == Cardinality({i \in Items : caller[i] # "new"}) + 1

\* process() with one queue for the two instances
Submit_shared_queue(n) ==
    /\ pc # "not_started"
    /\ NextItem \in Items
    /\ LET i == NextItem IN
        /\ cnt' = [cnt EXCEPT ![i] = n]
        /\ handle' = [handle EXCEPT ![i] = NewFuture]
        /\ IF QueueFull(queue)
           THEN /\ caller' = [caller EXCEPT ![i] = "putting"]
                /\ blocked' = blocked \cup {i}
                /\ UNCHANGED <<queue, enq_order, peer>>
           ELSE /\ caller' = [caller EXCEPT ![i] = "awaiting"]
                /\ queue' = Append(queue, i)
                /\ enq_order' = Append(enq_order, i)
                /\ peer' = IF peer.kind = "none" THEN peer
                           ELSE [peer EXCEPT !.queue = Append(@, i)]
                /\ UNCHANGED blocked
    /\ UNCHANGED <<kind>>
    /\ UNCHANGED loopVars
    /\ UNCHANGED lifeVars
    /\ UNCHANGED hostVars

\* process(texts): create the future, then queue.put; a full queue suspends
\* the caller in put.  Requests are served once lifespan has started the loop.
Submit(n) ==
    /\ pc # "not_started"
    /\ NextItem \in Items
    /\ LET i == NextItem IN
        /\ cnt' = [cnt EXCEPT ![i] = n]
        /\ handle' = [handle EXCEPT ![i] = NewFuture]
        /\ IF QueueFull(queue)
           THEN /\ caller' = [caller EXCEPT ![i] = "putting"]
                /\ blocked' = blocked \cup {i}
                /\ UNCHANGED <<queue, enq_order>>
           ELSE /\ caller' = [caller EXCEPT ![i] = "awaiting"]
                /\ queue' = Append(queue, i)
                /\ enq_order' = Append(enq_order, i)
                /\ UNCHANGED blocked
    /\ UNCHANGED <<kind>>
    /\ UNCHANGED loopVars
    /\ UNCHANGED lifeVars
    /\ UNCHANGED appVars

\* a caller suspended in queue.put goes on once the queue has room
PutResume(i) ==
    /\ caller[i] = "putting"
    /\ ~QueueFull(queue)
    /\ caller' = [caller EXCEPT ![i] = "awaiting"]
    /\ queue' = Append(queue, i)
    /\ enq_order' = Append(enq_order, i)
    /\ UNCHANGED <<kind, cnt, handle, blocked>>
    /\ UNCHANGED loopVars
    /\ UNCHANGED lifeVars
    /\ UNCHANGED appVars

\* the task running process() is cancelled while suspended in `await future`:
\* asyncio cancels the future it waits on
CancelWait_remove(i) ==
    /\ caller[i] = "awaiting"
    /\ handle[i].state = "PENDING"
    /\ caller' = [caller EXCEPT ![i] = "cancelled"]
    /\ handle' = [handle EXCEPT ![i].state = "CANCELLED"]
    /\ queue' = SelectSeq(queue, LAMBDA x : x # i)
    /\ UNCHANGED <<kind, cnt, enq_order, blocked>>
    /\ UNCHANGED loopVars
    /\ UNCHANGED lifeVars
    /\ UNCHANGED appVars

CancelWait(i) ==
    /\ caller[i] = "awaiting"
    /\ handle[i].state = "PENDING"
    /\ caller' = [caller EXCEPT ![i] = "cancelled"]
    /\ handle' = [handle EXCEPT ![i].state = "CANCELLED"]
    /\ UNCHANGED <<kind, queue, cnt, enq_order, blocked>>
    /\ UNCHANGED loopVars
    /\ UNCHANGED lifeVars
    /\ UNCHANGED appVars

\* the task running process() is cancelled while suspended in queue.put:
\* the item never reaches the queue
CancelPut(i) ==
    /\ caller[i] = "putting"
    /\ caller' = [caller EXCEPT ![i] = "cancelled"]
    /\ UNCHANGED <<kind, queue, cnt, handle, enq_order, blocked>>
    /\ UNCHANGED loopVars
    /\ UNCHANGED lifeVars
    /\ UNCHANGED appVars

\* --------------------------------------------------------- _process_loop
\* batch_data = []; item = await self.queue.get(); deadline = now + timeout
LoopGetFirst_zero_window ==
    /\ pc = "idle"
    /\ queue # <<>>
    /\ batch_data' = <<QueueGet(queue).item>>
    /\ queue' = QueueGet(queue).rest
    /\ remaining' = 0
    /\ batch_no' = batch_no + 1
    /\ batch_of' = [batch_of EXCEPT ![QueueGet(queue).item] = batch_no + 1]
    /\ pc' = "collecting"
    /\ deadline_mark' = -1
    /\ UNCHANGED <<kind, all_texts, request_indices, inflight, exec_out, cnt,
                   caller, blocked, handle, enq_order, exec_mark, last, runs>>
    /\ UNCHANGED lifeVars
    /\ UNCHANGED appVars

LoopGetFirst ==
    /\ pc = "idle"
    /\ queue # <<>>
    /\ batch_data' = <<QueueGet(queue).item>>
    /\ queue' = QueueGet(queue).rest
    /\ remaining' = BatchTimeout
    /\ batch_no' = batch_no + 1
    /\ batch_of' = [batch_of EXCEPT ![QueueGet(queue).item] = batch_no + 1]
    /\ pc' = "collecting"
    /\ deadline_mark' = -1
    /\ UNCHANGED <<kind, all_texts, request_indices, inflight, exec_out, cnt,
                   caller, blocked, handle, enq_order, exec_mark, last, runs>>
    /\ UNCHANGED lifeVars
    /\ UNCHANGED appVars

LoopCollect_while_executing ==
    /\ pc \in {"collecting", "executing"}
    /\ Len(batch_data) < MaxBatchSize
    /\ queue # <<>>
    /\ batch_data' = Append(batch_data, QueueGet(queue).item)
    /\ queue' = QueueGet(queue).rest
    /\ batch_of' = [batch_of EXCEPT ![QueueGet(queue).item] = batch_no]
    /\ UNCHANGED <<kind, pc, remaining, all_texts, request_indices, inflight, exec_out,
                   cnt, caller, blocked, handle, enq_order, batch_no, exec_mark, last,
                   runs, deadline_mark>>
    /\ UNCHANGED lifeVars
    /\ UNCHANGED appVars

LoopCollect_subunits ==
    /\ pc = "collecting"
    /\ Len(Flatten(BatchTexts(batch_data, cnt)).all_texts) < MaxBatchSize
    /\ remaining > 0
    /\ queue # <<>>
    /\ batch_data' = Append(batch_data, QueueGet(queue).item)
    /\ queue' = QueueGet(queue).rest
    /\ batch_of' = [batch_of EXCEPT ![QueueGet(queue).item] = batch_no]
    /\ UNCHANGED <<kind, pc, remaining, all_texts, request_indices, inflight, exec_out,
                   cnt, caller, blocked, handle, enq_order, batch_no, exec_mark, last,
                   runs, deadline_mark>>
    /\ UNCHANGED lifeVars
    /\ UNCHANGED appVars

LoopCollect_nodeadline ==
    /\ pc = "collecting"
    /\ Len(batch_data) < MaxBatchSize
    /\ queue # <<>>
    /\ batch_data' = Append(batch_data, QueueGet(queue).item)
    /\ queue' = QueueGet(queue).rest
    /\ batch_of' = [batch_of EXCEPT ![QueueGet(queue).item] = batch_no]
    /\ UNCHANGED <<kind, pc, remaining, all_texts, request_indices, inflight, exec_out,
                   cnt, caller, blocked, handle, enq_order, batch_no, exec_mark, last,
                   runs, deadline_mark>>
    /\ UNCHANGED lifeVars
    /\ UNCHANGED appVars

\* collection that sets the deadline anew with every item
LoopCollect_extends ==
    /\ pc = "collecting"
    /\ Len(batch_data) < MaxBatchSize
    /\ remaining > 0
    /\ queue # <<>>
    /\ batch_data' = Append(batch_data, QueueGet(queue).item)
    /\ queue' = QueueGet(queue).rest
    /\ batch_of' = [batch_of EXCEPT ![QueueGet(queue).item] = batch_no]
    /\ remaining' = BatchTimeout
    /\ UNCHANGED <<kind, pc, all_texts, request_indices, inflight, exec_out,
                   cnt, caller, blocked, handle, enq_order, batch_no, exec_mark, last,
                   runs, deadline_mark>>
    /\ UNCHANGED lifeVars
    /\ UNCHANGED appVars

\* inner while: timeout > 0 and an item arrives before the timeout
LoopCollect ==
    /\ pc = "collecting"
    /\ Len(batch_data) < MaxBatchSize
    /\ remaining > 0
    /\ queue # <<>>
    /\ batch_data' = Append(batch_data, QueueGet(queue).item)
    /\ queue' = QueueGet(queue).rest
    /\ batch_of' = [batch_of EXCEPT ![QueueGet(queue).item] = batch_no]
    /\ UNCHANGED <<kind, pc, remaining, all_texts, request_indices, inflight, exec_out,
                   cnt, caller, blocked, handle, enq_order, batch_no, exec_mark, last,
                   runs, deadline_mark>>
    /\ UNCHANGED lifeVars
    /\ UNCHANGED appVars

\* time passes while the loop collects
Tick ==
    /\ pc = "collecting"
    /\ remaining > 0
    /\ remaining' = remaining - 1
    /\ deadline_mark' = IF remaining - 1 <= 0 THEN Len(enq_order) ELSE deadline_mark
    /\ UNCHANGED <<kind, pc, queue, batch_data, all_texts, request_indices, inflight,
                   exec_out, cnt, caller, blocked, handle, enq_order, batch_of, batch_no,
                   exec_mark, last, runs>>
    /\ UNCHANGED lifeVars
    /\ UNCHANGED appVars

LoopRunBatch_pipelined ==
    /\ pc = "collecting"
    /\ Len(batch_data) >= MaxBatchSize \/ remaining <= 0
    /\ all_texts' = Flatten(BatchTexts(batch_data, cnt)).all_texts
    /\ request_indices' = Flatten(BatchTexts(batch_data, cnt)).request_indices
    /\ inflight' = inflight + 1
    /\ exec_mark' = Len(enq_order)
    /\ pc' = "idle"
    /\ runs' = [i \in Items |-> IF InBatch(batch_data, i) THEN runs[i] + 1 ELSE runs[i]]
    /\ UNCHANGED <<kind, queue, batch_data, remaining, exec_out, cnt, caller, blocked, handle,
                   enq_order, batch_of, batch_no, last, deadline_mark>>
    /\ UNCHANGED lifeVars
    /\ UNCHANGED appVars

\* the inner while ends (batch full, or timeout <= 0 / TimeoutError); then
\* _run_batch flattens the batch and hands it to run_in_executor
LoopRunBatch ==
    /\ pc = "collecting"
    /\ Len(batch_data) >= MaxBatchSize \/ remaining <= 0
    /\ all_texts' = Flatten(BatchTexts(batch_data, cnt)).all_texts
    /\ request_indices' = Flatten(BatchTexts(batch_data, cnt)).request_indices
    /\ inflight' = inflight + 1
    /\ exec_mark' = Len(enq_order)
    /\ pc' = "executing"
    /\ runs' = [i \in Items |-> IF InBatch(batch_data, i) THEN runs[i] + 1 ELSE runs[i]]
    /\ UNCHANGED <<kind, queue, batch_data, remaining, exec_out, cnt, caller, blocked, handle,
                   enq_order, batch_of, batch_no, last, deadline_mark>>
    /\ UNCHANGED lifeVars
    /\ UNCHANGED appVars

\* the outcomes the executor function can have for the flattened input
Outcomes(texts) ==
    (IF kind = "embed"
     THEN {EmbedOutput(texts)}
     ELSE {RerankOutput(texts, g) : g \in [1..MaxSubUnits -> 1..MaxScore]})
    \cup {ExecError(<<"error", batch_no>>)}

\* the executor thread finishes; a loop that was cancelled meanwhile has
\* dropped the future, and the outcome is discarded
ExecFinish ==
    /\ inflight > 0
    /\ inflight' = inflight - 1
    /\ IF pc = "executing"
       THEN /\ \E o \in Outcomes(all_texts) : exec_out' = <<o>>
            /\ pc' = "returned"
       ELSE UNCHANGED <<pc, exec_out>>
    /\ UNCHANGED <<kind, queue, batch_data, remaining, all_texts, request_indices,
                   cnt, caller, blocked, handle, enq_order, batch_of, batch_no, exec_mark, last,
                   runs, deadline_mark>>
    /\ UNCHANGED lifeVars
    /\ UNCHANGED appVars

Dispatch_nocatch ==
    /\ pc = "returned"
    /\ LET out == exec_out[1] IN
        /\ handle' = IF out.ok
                     THEN DispatchSuccess(handle, batch_data, out, request_indices, all_texts)
                     ELSE handle
        /\ last' = <<[items |-> batch_data, out |-> out, indices |-> request_indices,
                      texts |-> all_texts, no |-> batch_no]>>
        /\ pc' = IF out.ok THEN "idle" ELSE "stopped"
    /\ batch_data' = <<>>
    /\ remaining' = 0
    /\ all_texts' = <<>>
    /\ request_indices' = <<>>
    /\ exec_out' = <<>>
    /\ exec_mark' = 0
    /\ deadline_mark' = -1
    /\ UNCHANGED <<kind, queue, inflight, cnt, caller, blocked, enq_order, batch_of, batch_no,
                   runs>>
    /\ UNCHANGED lifeVars
    /\ UNCHANGED appVars

Dispatch_retry ==
    /\ pc = "returned"
    /\ LET out == exec_out[1] IN
        /\ handle' = IF out.ok
                     THEN DispatchSuccess(handle, batch_data, out, request_indices, all_texts)
                     ELSE handle
        /\ queue' = IF out.ok THEN queue ELSE batch_data \o queue
        /\ last' = <<[items |-> batch_data, out |-> out, indices |-> request_indices,
                      texts |-> all_texts, no |-> batch_no]>>
    /\ pc' = "idle"
    /\ batch_data' = <<>>
    /\ remaining' = 0
    /\ all_texts' = <<>>
    /\ request_indices' = <<>>
    /\ exec_out' = <<>>
    /\ exec_mark' = 0
    /\ deadline_mark' = -1
    /\ UNCHANGED <<kind, inflight, cnt, caller, blocked, enq_order, batch_of, batch_no, runs>>
    /\ UNCHANGED lifeVars
    /\ UNCHANGED appVars

\* the loop resumes after run_in_executor: the try body resolves the futures
\* with their slices, the except body with the error; then back to `while True`
Dispatch ==
    /\ pc = "returned"
    /\ LET out == exec_out[1] IN
        /\ handle' = IF out.ok
                     THEN DispatchSuccess(handle, batch_data, out, request_indices, all_texts)
                     ELSE DispatchFailure(handle, batch_data, out.err[1])
        /\ last' = <<[items |-> batch_data, out |-> out, indices |-> request_indices,
                      texts |-> all_texts, no |-> batch_no]>>
    /\ pc' = "idle"
    /\ batch_data' = <<>>
    /\ remaining' = 0
    /\ all_texts' = <<>>
    /\ request_indices' = <<>>
    /\ exec_out' = <<>>
    /\ exec_mark' = 0
    /\ deadline_mark' = -1
    /\ UNCHANGED <<kind, queue, inflight, cnt, caller, blocked, enq_order, batch_of, batch_no,
                   runs>>
    /\ UNCHANGED lifeVars
    /\ UNCHANGED appVars

Next ==
    \/ Start
    \/ Stop
    \/ \E n \in SubUnitCounts : Submit(n)
    \/ \E i \in Items : PutResume(i)
    \/ \E i \in Items : CancelWait(i)
    \/ \E i \in Items : CancelPut(i)
    \/ LoopGetFirst
    \/ LoopCollect
    \/ Tick
    \/ LoopRunBatch
    \/ ExecFinish
    \/ Dispatch

Spec == Init /\ [][Next]_vars

\* ---------------------------------------------- stop() called repeatedly
allButStops == <<kind, pc, queue, batch_data, remaining, all_texts, request_indices,
                 inflight, exec_out, cnt, caller, handle, enq_order, batch_of, batch_no,
                 blocked, exec_mark, last, runs, deadline_mark, task_end, restartVars>>

\* stop() before start(): processing_loop_task is None, the `if` is skipped
StopNoTask ==
    /\ pc = "not_started"
    /\ stops < MaxStops
    /\ stops' = stops + 1
    /\ stop_raised' = (stop_raised \/ StopRaises(FALSE, task_end))
    /\ UNCHANGED allButStops
    /\ UNCHANGED appVars

\* stop() when the loop task has ended: cancel() of a done task does nothing
\* and awaiting it returns, or raises the CancelledError that stop() catches
StopAgain ==
    /\ pc = "stopped"
    /\ bound_extra = "no"
    /\ stops < MaxStops
    /\ stops' = stops + 1
    /\ stop_raised' = (stop_raised \/ StopRaises(TRUE, task_end))
    /\ UNCHANGED allButStops
    /\ UNCHANGED appVars

NextLifecycle ==
    \/ Next
    \/ StopNoTask
    \/ StopAgain

SpecLifecycle == Init /\ [][NextLifecycle]_vars

\* ------------------------------------------------------------ start() again
\* start() has no test of processing_loop_task: every call creates a task
\* running _process_loop and binds the attribute to it.  A task that is no
\* longer bound is not cancelled by anything and, being `while True`, does not
\* end by itself.  pc and the loop variables follow one loop task; the other
\* live ones are counted in extra_loops, and their cycles are not followed.

\* start() while the loop that pc describes runs: one more loop task, which
\* processing_loop_task now refers to
StartAgain ==
    /\ pc \in {"idle", "collecting", "executing", "returned"}
    /\ extra_loops < MaxExtraLoops
    /\ extra_loops' = extra_loops + 1
    /\ bound_extra' = "live"
    /\ UNCHANGED <<task_end, stops, stop_raised>>
    /\ UNCHANGED <<kind, callerVars, loopVars>>
    /\ UNCHANGED appVars

\* start() after the loop that pc describes has ended: pc follows the new task
Restart ==
    /\ pc = "stopped"
    /\ pc' = "idle"
    /\ task_end' = "none"
    /\ bound_extra' = "no"
    /\ UNCHANGED <<stops, stop_raised, extra_loops>>
    /\ UNCHANGED <<kind, queue, batch_data, remaining, all_texts, request_indices,
                   inflight, exec_out, cnt, caller, blocked, handle, enq_order, batch_of,
                   batch_no, exec_mark, last, runs, deadline_mark>>
    /\ UNCHANGED appVars

\* stop() when processing_loop_task is a task counted in extra_loops: that
\* task, waiting in its first queue.get(), leaves by `break`
StopExtra ==
    /\ bound_extra = "live"
    /\ stops < MaxStops
    /\ extra_loops' = extra_loops - 1
    /\ bound_extra' = "ended"
    /\ stops' = stops + 1
    /\ stop_raised' = (stop_raised \/ StopRaises(TRUE, "finished"))
    /\ UNCHANGED task_end
    /\ UNCHANGED <<kind, callerVars, loopVars>>
    /\ UNCHANGED appVars

\* stop() once more after StopExtra: cancel() of the ended task does nothing
StopExtraAgain ==
    /\ bound_extra = "ended"
    /\ stops < MaxStops
    /\ stops' = stops + 1
    /\ stop_raised' = (stop_raised \/ StopRaises(TRUE, "finished"))
    /\ UNCHANGED <<task_end, extra_loops, bound_extra>>
    /\ UNCHANGED <<kind, callerVars, loopVars>>
    /\ UNCHANGED appVars

NextRestart ==
    \/ NextLifecycle
    \/ StartAgain
    \/ Restart
    \/ StopExtra
    \/ StopExtraAgain

SpecRestart == Init /\ [][NextRestart]_vars

\* ------------------------------------------------------------ endpoints
EMBED_MAX_TEXTS_PER_REQUEST == 128
RERANK_MAX_DOCUMENTS == 100
MaxTexts == IF kind = "embed" THEN EMBED_MAX_TEXTS_PER_REQUEST ELSE RERANK_MAX_DOCUMENTS

\* create_embeddings, rerank: `if not input_texts` and `if len(...) > limit`
\* raise HTTPException(400) before process() is called
Accepts_empty(n) == ~(n > MaxTexts)
Accepts(n) == ~(n = 0) /\ ~(n > MaxTexts)

\* lengths of the list a request carries: none, the lengths the batcher is
\* run with, and one more than the limit
RequestSizes == {0} \cup SubUnitCounts \cup {MaxTexts + 1}

\* the endpoint answers 400
Reject(n) ==
    /\ pc # "not_started"
    /\ ~Accepts(n)
    /\ http_status' = 400
    /\ UNCHANGED peer
    /\ UNCHANGED ingestVars
    /\ UNCHANGED cacheVars
    /\ UNCHANGED histVars
    /\ UNCHANGED callerVars
    /\ UNCHANGED kind
    /\ UNCHANGED loopVars
    /\ UNCHANGED lifeVars

\* POST /embed, POST /rerank with a list of n texts or documents
Endpoint(n) == IF Accepts(n) THEN Submit(n) ELSE Reject(n)

NextEndpoint ==
    \/ Start
    \/ Stop
    \/ \E n \in RequestSizes : Endpoint(n)
    \/ \E i \in Items : PutResume(i)
    \/ \E i \in Items : CancelWait(i)
    \/ \E i \in Items : CancelPut(i)
    \/ LoopGetFirst
    \/ LoopCollect
    \/ Tick
    \/ LoopRunBatch
    \/ ExecFinish
    \/ Dispatch

SpecEndpoint == Init /\ [][NextEndpoint]_vars

\* ------------------------------------------------- a loop that is prompt
\* time passes only while the loop is suspended in wait_for(queue.get(),
\* timeout) on an empty queue: a loop that finds an item, or a full batch,
\* goes on without delay
TickWaiting ==
    /\ queue = <<>>
    /\ Len(batch_data) < MaxBatchSize
    /\ Tick

NextPrompt ==
    \/ Start
    \/ Stop
    \/ \E n \in SubUnitCounts : Submit(n)
    \/ \E i \in Items : PutResume(i)
    \/ \E i \in Items : CancelWait(i)
    \/ \E i \in Items : CancelPut(i)
    \/ LoopGetFirst
    \/ LoopCollect
    \/ TickWaiting
    \/ LoopRunBatch
    \/ ExecFinish
    \/ Dispatch

SpecPrompt == Init /\ [][NextPrompt]_vars

\* ------------------------------------------------------------- fairness
\* the event loop runs a task that is ready, the clock advances, and the
\* executor thread returns or raises
Fairness ==
    /\ WF_vars(LoopGetFirst)
    /\ WF_vars(Tick)
    /\ WF_vars(LoopRunBatch)
    /\ WF_vars(ExecFinish)
    /\ WF_vars(Dispatch)

\* the scheduler between start() and stop(): stop() is not called
NextLive ==
    \/ Start
    \/ \E n \in SubUnitCounts : Submit(n)
    \/ \E i \in Items : PutResume(i)
    \/ \E i \in Items : CancelWait(i)
    \/ \E i \in Items : CancelPut(i)
    \/ LoopGetFirst
    \/ LoopCollect
    \/ Tick
    \/ LoopRunBatch
    \/ ExecFinish
    \/ Dispatch

SpecLive == Init /\ [][NextLive]_vars /\ Fairness

\* --------------------------------------------- the two batchers of the module
\* embed_batcher = EmbedBatcher(), rerank_batcher = RerankBatcher(): two
\* objects, each with the queue and processing_loop_task its __init__ makes.
\* The variables above describe one of them, peer holds the other, and Switch
\* turns to the other one: every action then acts on the instance in view.
\* Each instance counts its own deadline (Tick), so the two run at any relative
\* speed.  The callers of the pair are not cancelled: the steps followed are
\* start, process, the loop's, the executor's and stop.
\* the instance in view, as a record
View ==
    [kind |-> kind,
     pc |-> pc,
     queue |-> queue,
     batch_data |-> batch_data,
     remaining |-> remaining,
     all_texts |-> all_texts,
     request_indices |-> request_indices,
     inflight |-> inflight,
     exec_out |-> exec_out,
     cnt |-> cnt,
     caller |-> caller,
     handle |-> handle,
     enq_order |-> enq_order,
     batch_of |-> batch_of,
     batch_no |-> batch_no,
     blocked |-> blocked,
     exec_mark |-> exec_mark,
     last |-> last,
     runs |-> runs,
     deadline_mark |-> deadline_mark,
     task_end |-> task_end,
     stops |-> stops,
     stop_raised |-> stop_raised,
     extra_loops |-> extra_loops,
     bound_extra |-> bound_extra]

\* EmbedBatcher() / RerankBatcher(): the instance __init__ returns
NewBatcher(k) ==
    [kind |-> k,
     pc |-> "not_started",
     queue |-> <<>>,
     batch_data |-> <<>>,
     remaining |-> 0,
     all_texts |-> <<>>,
     request_indices |-> <<>>,
     inflight |-> 0,
     exec_out |-> <<>>,
     cnt |-> [i \in Items |-> 0],
     caller |-> [i \in Items |-> "new"],
     handle |-> [i \in Items |-> NoFuture],
     enq_order |-> <<>>,
     batch_of |-> [i \in Items |-> 0],
     batch_no |-> 0,
     blocked |-> {},
     exec_mark |-> 0,
     last |-> <<>>,
     runs |-> [i \in Items |-> 0],
     deadline_mark |-> -1,
     task_end |-> "none",
     stops |-> 0,
     stop_raised |-> FALSE,
     extra_loops |-> 0,
     bound_extra |-> "no"]

\* the variables of the batcher of class k
Batcher(k) == IF kind = k THEN View ELSE peer

\* the event loop turns to a coroutine of the other instance
Switch ==
    /\ peer.kind # "none"
    /\ kind' = peer.kind
    /\ pc' = peer.pc
    /\ queue' = peer.queue
    /\ batch_data' = peer.batch_data
    /\ remaining' = peer.remaining
    /\ all_texts' = peer.all_texts
    /\ request_indices' = peer.request_indices
    /\ inflight' = peer.inflight
    /\ exec_out' = peer.exec_out
    /\ cnt' = peer.cnt
    /\ caller' = peer.caller
    /\ handle' = peer.handle
    /\ enq_order' = peer.enq_order
    /\ batch_of' = peer.batch_of
    /\ batch_no' = peer.batch_no
    /\ blocked' = peer.blocked
    /\ exec_mark' = peer.exec_mark
    /\ last' = peer.last
    /\ runs' = peer.runs
    /\ deadline_mark' = peer.deadline_mark
    /\ task_end' = peer.task_end
    /\ stops' = peer.stops
    /\ stop_raised' = peer.stop_raised
    /\ extra_loops' = peer.extra_loops
    /\ bound_extra' = peer.bound_extra
    /\ peer' = View
    /\ UNCHANGED hostVars

\* process() calls made on an instance
Calls(c) == Cardinality({i \in Items : c[i] # "new"})

\* process() on the instance in view; the two instances take MaxItems calls
\* between them
SubmitOfPair(n) ==
    /\ Calls(caller) + Calls(peer.caller) < MaxItems
    /\ Submit(n)

InitPair ==
    /\ InitBatcher
    /\ kind = "embed"
    /\ peer = NewBatcher("rerank")
    /\ InitIngest
    /\ InitCache(MaxCacheSize)
    /\ InitHistory(MaxTurns)

NextPair ==
    \/ Switch
    \/ Start
    \/ Stop
    \/ \E n \in SubUnitCounts : SubmitOfPair(n)
    \/ \E i \in Items : PutResume(i)
    \/ LoopGetFirst
    \/ LoopCollect
    \/ Tick
    \/ LoopRunBatch
    \/ ExecFinish
    \/ Dispatch

SpecPair == InitPair /\ [][NextPair]_vars

\* ------------------------------------------------------------ EmbeddingCache
\* query strings are sequences of characters
Queries == {<<"a">>, <<"A">>, <<" ", "a", " ">>, <<"B">>, <<"c">>, <<"d">>}

\* str.strip(): leading and trailing whitespace removed
RECURSIVE StripLeft(_)
StripLeft(s) == IF s # <<>> /\ Head(s) = " " THEN StripLeft(Tail(s)) ELSE s

RECURSIVE StripRight(_)
StripRight(s) ==
    IF s # <<>> /\ s[Len(s)] = " " THEN StripRight(SubSeq(s, 1, Len(s) - 1)) ELSE s

Strip(s) == StripRight(StripLeft(s))

\* str.lower(), on the characters the queries use
LowerChar(c) == IF c = "A" THEN "a" ELSE IF c = "B" THEN "b" ELSE c

Lower(s) == [p \in 1..Len(s) |-> LowerChar(s[p])]

\* _make_key without the normalisation
MakeKey_raw(query) == <<"md5", query>>

\* _make_key: the MD5 digest of the stripped, lower-cased query; the digest is
\* kept as the pair of the function's name and its argument
MakeKey(query) == <<"md5", Lower(Strip(query))>>

\* ml_client.embed_single(query): the embedding the ML API computes for the
\* text it is sent
EmbedSingle(query) == [dense |-> <<"dense", query>>, sparse |-> <<"sparse", query>>]

\* the embeddings put() is handed
Values == {EmbedSingle(q) : q \in {<<"a">>, <<"A">>}}

\* EmbeddingCache.size
Size(c) == Len(c)

\* key in self._cache
HasKey(c, key) == \E p \in 1..Len(c) : c[p].key = key

\* self._cache[key], for a key the cache holds
Lookup(c, key) == c[CHOOSE p \in 1..Len(c) : c[p].key = key].val

\* OrderedDict.move_to_end(key): the entry becomes the most recent one
MoveToEnd(c, key) ==
    IF HasKey(c, key)
    THEN SelectSeq(c, LAMBDA e : e.key # key) \o SelectSeq(c, LAMBDA e : e.key = key)
    ELSE c

\* self._cache[key] = value: an entry the cache holds keeps its place, a new
\* one goes to the end
SetItem(c, key, val) ==
    IF HasKey(c, key)
    THEN [p \in 1..Len(c) |-> IF c[p].key = key THEN [key |-> key, val |-> val] ELSE c[p]]
    ELSE Append(c, [key |-> key, val |-> val])

\* EmbeddingCache.get: <<embedding>> on a hit, <<>> for None
GetCache(c, query) ==
    LET key == MakeKey(query) IN
    IF HasKey(c, key)
    THEN [cache |-> MoveToEnd(c, key), ret |-> <<Lookup(c, key)>>]
    ELSE [cache |-> c, ret |-> <<>>]

\* put that appends a second entry for a key the cache holds
PutCache_append(c, m, query, val) ==
    LET key == MakeKey(query) IN
    IF Len(c) >= m
    THEN IF c = <<>>
         THEN [cache |-> c, raised |-> TRUE]
         ELSE [cache |-> Append(Tail(c), [key |-> key, val |-> val]), raised |-> FALSE]
    ELSE [cache |-> Append(c, [key |-> key, val |-> val]), raised |-> FALSE]

\* EmbeddingCache.put; popitem(last=False) of an empty OrderedDict raises
\* KeyError, which leaves put before the entry is stored
PutCache(c, m, query, val) ==
    LET key == MakeKey(query) IN
    IF HasKey(c, key)
    THEN [cache |-> SetItem(MoveToEnd(c, key), key, val), raised |-> FALSE]
    ELSE IF Len(c) >= m
         THEN IF c = <<>>
              THEN [cache |-> c, raised |-> TRUE]
              ELSE [cache |-> SetItem(Tail(c), key, val), raised |-> FALSE]
         ELSE [cache |-> SetItem(c, key, val), raised |-> FALSE]

\* the keys of c in the order of u, then the key just used
Used(u, c, key) ==
    SelectSeq(SelectSeq(u, LAMBDA k : k # key) \o <<key>>, LAMBDA k : HasKey(c, k))

\* cache.get(query)
CacheGet(query) ==
    LET r == GetCache(cache, query) IN
    /\ cache' = r.cache
    /\ cache_op' = [op |-> "get", key |-> MakeKey(query),
                    found |-> HasKey(cache, MakeKey(query)),
                    ret |-> r.ret, raised |-> FALSE]
    /\ use_order' = Used(use_order, r.cache, MakeKey(query))
    /\ UNCHANGED <<max_size, embed_calls>>
    /\ UNCHANGED <<batcherVars, ingestVars>>
    /\ UNCHANGED histVars

\* cache.put(query, dense, sparse)
CachePut(query, val) ==
    LET r == PutCache(cache, max_size, query, val) IN
    /\ cache' = r.cache
    /\ cache_op' = [op |-> "put", key |-> MakeKey(query),
                    found |-> HasKey(cache, MakeKey(query)),
                    ret |-> <<>>, raised |-> r.raised]
    /\ use_order' = Used(use_order, r.cache, MakeKey(query))
    /\ UNCHANGED <<max_size, embed_calls>>
    /\ UNCHANGED <<batcherVars, ingestVars>>
    /\ UNCHANGED histVars

\* cache.clear()
CacheClear ==
    /\ cache' = <<>>
    /\ cache_op' = [op |-> "clear", key |-> <<>>, found |-> FALSE, ret |-> <<>>,
                    raised |-> FALSE]
    /\ use_order' = <<>>
    /\ UNCHANGED <<max_size, embed_calls>>
    /\ UNCHANGED <<batcherVars, ingestVars>>
    /\ UNCHANGED histVars

\* RAGOrchestrator._get_query_embedding, one query at a time: the cached
\* embedding on a hit, else embed_single and put
GetQueryEmbedding(query) ==
    LET g == GetCache(cache, query) IN
    IF g.ret # <<>>
    THEN /\ cache' = g.cache
         /\ cache_op' = [op |-> "query", key |-> MakeKey(query), found |-> TRUE,
                         ret |-> g.ret, raised |-> FALSE]
         /\ use_order' = Used(use_order, g.cache, MakeKey(query))
         /\ UNCHANGED <<max_size, embed_calls>>
         /\ UNCHANGED <<batcherVars, ingestVars>>
         /\ UNCHANGED histVars
    ELSE LET p == PutCache(g.cache, max_size, query, EmbedSingle(query)) IN
         /\ embed_calls < MaxEmbedCalls
         /\ embed_calls' = embed_calls + 1
         /\ cache' = p.cache
         /\ cache_op' = [op |-> "query", key |-> MakeKey(query), found |-> FALSE,
                         ret |-> IF p.raised THEN <<>> ELSE <<EmbedSingle(query)>>,
                         raised |-> p.raised]
         /\ use_order' = Used(use_order, p.cache, MakeKey(query))
         /\ UNCHANGED max_size
         /\ UNCHANGED <<batcherVars, ingestVars>>
         /\ UNCHANGED histVars

\* the values of settings.embedding_cache_size, an int the settings do not
\* constrain
CacheSizes == (-1)..MaxCacheSize

\* EmbeddingCache(max_size=settings.embedding_cache_size), for every size
InitCacheSizes ==
    /\ InitBatcher
    /\ peer = NoPeer
    /\ InitIngest
    /\ kind = "embed"
    /\ \E m \in CacheSizes : InitCache(m)
    /\ InitHistory(MaxTurns)

NextCache ==
    \/ \E q \in Queries : CacheGet(q)
    \/ \E q \in Queries : \E v \in Values : CachePut(q, v)
    \/ CacheClear
    \/ \E q \in Queries : GetQueryEmbedding(q)

SpecCache == InitCacheSizes /\ [][NextCache]_vars

\* ================================================================= claims
RECURSIVE SumCnt(_, _, _)
\* number of sub-units of the first k items of bd
SumCnt(bd, c, k) == IF k = 0 THEN 0 ELSE SumCnt(bd, c, k - 1) + c[bd[k]]

EnqPos(i) == CHOOSE p \in 1..Len(enq_order) : enq_order[p] = i
Enqueued(i) == \E p \in 1..Len(enq_order) : enq_order[p] = i
Running == pc \in {"executing", "returned"}

\* the k-th item of the batch dispatched last, and what its handle must hold
LastItem(k) == last[1].items[k]
OwnDense(i) == [j \in 1..cnt[i] |-> <<"dense", <<i, j>>>>]
OwnSparse(i) == [j \in 1..cnt[i] |-> <<"sparse", <<i, j>>>>]
\* the score the result list r gives to local index j
ScoreAt(r, j) == r[CHOOSE p \in 1..Len(r) : r[p][1] = j][2]
HoldsOwnSlice(k) ==
    LET i == LastItem(k)
        start == SumCnt(last[1].items, cnt, k - 1)
        end == SumCnt(last[1].items, cnt, k)
        r == handle[i].result[1]
    IN /\ handle[i].state = "FINISHED"
       /\ handle[i].exception = <<>>
       /\ handle[i].result # <<>>
       /\ IF kind = "embed"
          THEN /\ r.dense_vecs = SubSeq(last[1].out.dense, start + 1, end)
               /\ r.sparse_vecs = SubSeq(last[1].out.sparse, start + 1, end)
               /\ r.dense_vecs = OwnDense(i)
               /\ r.sparse_vecs = OwnSparse(i)
          ELSE /\ Len(r.results) = cnt[i]
               /\ \A j \in 1..cnt[i] :
                     /\ \E p \in 1..Len(r.results) : r.results[p][1] = j - 1
                     /\ ScoreAt(r.results, j - 1) = last[1].out.scores[start + j]

\* C1: a handle that is done (result, error, or cancelled by its caller) never
\* changes again, and no handle ever holds both a result and an error.
C1_ResolvedAtMostOnce ==
    [][\A i \in Items :
          /\ Done(handle[i]) => handle'[i] = handle[i]
          /\ ~(handle'[i].result # <<>> /\ handle'[i].exception # <<>>)]_vars

\* a handle resolved by an earlier batch, after a later batch was dispatched
C1_Witness ==
    /\ last # <<>>
    /\ \E i \in Items : /\ handle[i].state = "FINISHED"
                        /\ batch_of[i] < last[1].no
    /\ \E i \in Items : handle[i].state = "CANCELLED" /\ batch_of[i] = last[1].no

\* C2 as stated: after a successful executor call every WorkItem of the batch
\* has its handle resolved with exactly its own slice of the executor result.
C2_Original ==
    (last # <<>> /\ last[1].out.ok) =>
        \A k \in 1..Len(last[1].items) : HoldsOwnSlice(k)

\* C2 amended: after a successful executor call every WorkItem of the batch
\* whose handle was still pending at dispatch has it resolved with exactly its
\* own slice (for reranking: the scores of that slice, each with its position
\* in the slice); a handle its caller had cancelled stays cancelled, unset.
C2_OwnSliceUnlessCancelled ==
    (last # <<>> /\ last[1].out.ok) =>
        \A k \in 1..Len(last[1].items) :
            \/ HoldsOwnSlice(k)
            \/ /\ handle[LastItem(k)].state = "CANCELLED"
               /\ handle[LastItem(k)].result = <<>>
               /\ handle[LastItem(k)].exception = <<>>

\* a successful batch of several items, one at a non-zero offset resolved,
\* and one cancelled by its caller
C2_Witness ==
    /\ last # <<>>
    /\ last[1].out.ok
    /\ Len(last[1].items) >= 2
    /\ handle[LastItem(2)].state = "FINISHED"
    /\ handle[LastItem(1)].state = "CANCELLED"

\* C3: the offset ranges of a batch are the running prefix sums of the
\* sub-unit counts: contiguous, non-overlapping, covering [0, total); counts
\* [3, 1, 4] give (0,3), (3,4), (4,8).
C3_PrefixSumRanges ==
    /\ Running =>
        /\ Len(request_indices) = Len(batch_data)
        /\ \A k \in 1..Len(batch_data) :
              /\ request_indices[k] = <<SumCnt(batch_data, cnt, k - 1),
                                         SumCnt(batch_data, cnt, k)>>
              /\ request_indices[k][1] < request_indices[k][2]
              /\ request_indices[k][1] = IF k = 1 THEN 0 ELSE request_indices[k - 1][2]
        /\ request_indices[Len(batch_data)][2] = Len(all_texts)
    /\ Flatten(<<Texts(1, 3), Texts(2, 1), Texts(3, 4)>>).request_indices
           = <<<<0, 3>>, <<3, 4>>, <<4, 8>>>>

\* a batch of several items of different sizes is with the executor
C3_Witness ==
    /\ pc = "executing"
    /\ Len(batch_data) >= 2
    /\ cnt[batch_data[1]] # cnt[batch_data[2]]

\* C4: after the executor raised for a batch, every handle of the batch that
\* was still pending holds that same error, and none holds a result.
C4_UniformFailure ==
    (last # <<>> /\ ~last[1].out.ok) =>
        \A k \in 1..Len(last[1].items) :
            /\ handle[LastItem(k)].result = <<>>
            /\ \/ /\ handle[LastItem(k)].state = "FINISHED"
                  /\ handle[LastItem(k)].exception = last[1].out.err
               \/ /\ handle[LastItem(k)].state = "CANCELLED"
                  /\ handle[LastItem(k)].exception = <<>>

\* a failed batch of two items, both resolved with the error
C4_Witness ==
    /\ last # <<>>
    /\ ~last[1].out.ok
    /\ Len(last[1].items) >= 2
    /\ \A k \in 1..Len(last[1].items) : handle[LastItem(k)].exception = last[1].out.err

\* C5: dispatching a failed batch leaves the loop alive and IDLE, with the
\* queue as it was, so that what is queued is collected by the next cycle.
C5_FailureKeepsLoop ==
    [][(last' # last /\ ~last'[1].out.ok) =>
          /\ pc' = "idle"
          /\ batch_data' = <<>>
          /\ queue' = queue]_vars

\* a batch failed, and an item of a later batch was resolved with a result
C5_Witness ==
    \E i, j \in Items :
        /\ handle[i].exception # <<>>
        /\ handle[j].result # <<>>
        /\ batch_of[i] < batch_of[j]

\* C6: at most one executor invocation is in flight: exactly one while the
\* loop awaits the executor, none while it waits for, collects or dispatches.
C6_OneInFlight ==
    /\ inflight <= 1
    /\ pc = "executing" => inflight = 1
    /\ pc \in {"not_started", "idle", "collecting", "returned"} => inflight = 0

\* an invocation is in flight while more work waits in the queue
C6_Witness == inflight = 1 /\ pc = "executing" /\ queue # <<>>

\* C7: while a batch is with the executor (until its dispatch), a submit that
\* finds room is enqueued at once, the loop dequeues nothing, the batch and
\* its flattened input stay as they are, and nothing enqueued since the
\* hand-over belongs to the batch.
C7_NoJoinWhileExecuting ==
    /\ [](Running =>
            /\ \A k \in 1..Len(batch_data) : EnqPos(batch_data[k]) <= exec_mark
            /\ \A p \in 1..Len(enq_order) : p > exec_mark => batch_of[enq_order[p]] = 0)
    /\ [][Running =>
            /\ Len(queue') >= Len(queue)
            /\ SubSeq(queue', 1, Len(queue)) = queue
            /\ (pc' \in {"executing", "returned"} =>
                    batch_data' = batch_data /\ all_texts' = all_texts)
            /\ (last' # last => last'[1].items = batch_data /\ last'[1].texts = all_texts)
            /\ (NextItem \in Items /\ caller'[NextItem] # "new" /\ ~QueueFull(queue)) =>
                    (queue' = Append(queue, NextItem) /\ caller'[NextItem] = "awaiting")]_vars

\* an item was enqueued after the batch went to the executor and waits
C7_Witness ==
    /\ pc = "executing"
    /\ Len(enq_order) > exec_mark
    /\ queue # <<>>
    /\ EnqPos(queue[Len(queue)]) > exec_mark

\* C8: every handle of a batch is done before an item of a later batch is
\* dequeued: whenever the loop waits for or collects a batch, and whenever a
\* later batch exists, no handle of an earlier batch is pending.
C8_BatchesInSequence ==
    /\ \A i, j \in Items :
          (batch_of[i] # 0 /\ batch_of[i] < batch_of[j]) => Done(handle[i])
    /\ pc = "idle" => \A i \in Items : batch_of[i] # 0 => Done(handle[i])
    /\ Running => \A i \in Items :
                    (batch_of[i] # 0 /\ batch_of[i] < batch_no) => Done(handle[i])

\* a second batch is being collected after the first batch was resolved
C8_Witness ==
    /\ pc = "collecting"
    /\ batch_no = 2
    /\ \E i \in Items : batch_of[i] = 1 /\ handle[i].state = "FINISHED"

\* C9: items leave the queue in the order they entered it: an item enqueued
\* earlier is in the same or an earlier batch, the queue and the batch keep
\* the enqueue order, and the flattened input lists the items of the batch in
\* that order, each with its sub-units in submitted order.
C9_Fifo ==
    /\ \A p, q \in 1..Len(enq_order) :
          (p < q /\ batch_of[enq_order[q]] # 0) =>
              /\ batch_of[enq_order[p]] # 0
              /\ batch_of[enq_order[p]] <= batch_of[enq_order[q]]
    /\ queue = SelectSeq(enq_order, LAMBDA i : batch_of[i] = 0)
    /\ pc \in {"collecting", "executing", "returned"} =>
          batch_data = SelectSeq(enq_order, LAMBDA i : batch_of[i] = batch_no)
    /\ Running =>
          /\ Len(all_texts) = SumCnt(batch_data, cnt, Len(batch_data))
          /\ \A k \in 1..Len(batch_data) : \A j \in 1..cnt[batch_data[k]] :
                all_texts[SumCnt(batch_data, cnt, k - 1) + j] = <<batch_data[k], j>>

\* a batch of two items, the first with several sub-units, is with the executor
C9_Witness ==
    /\ pc = "executing"
    /\ Len(batch_data) >= 2
    /\ cnt[batch_data[1]] = MaxSubUnits
    /\ Len(all_texts) > MaxSubUnits

\* C10: the queue never holds more than its maximum; a submit finding it full
\* waits in put, keeps its pending handle, and leaves put only by being
\* enqueued (or by its caller giving up); no handle holds a capacity error.
C10_BoundedQueueBackpressure ==
    /\ [](/\ Len(queue) <= MaxQueueSize
          /\ \A i \in Items :
                /\ caller[i] = "putting" =>
                      (handle[i].state = "PENDING" /\ ~Enqueued(i))
                /\ handle[i].exception # <<>> => handle[i].exception[1][1] = "error"
                /\ caller[i] = "awaiting" => Enqueued(i)
                /\ i \in blocked => caller[i] \in {"putting", "awaiting", "cancelled"})
    /\ [][\A i \in Items :
            /\ (caller[i] = "new" /\ caller'[i] = "putting") => Len(queue) = MaxQueueSize
            /\ (caller[i] = "new" /\ caller'[i] = "awaiting") => queue' = Append(queue, i)
            /\ caller[i] = "putting" =>
                  \/ caller'[i] = "putting" /\ (Enqueued(i)' <=> Enqueued(i))
                  \/ /\ caller'[i] = "awaiting"
                     /\ Len(queue) < MaxQueueSize
                     /\ queue' = Append(queue, i)
                  \/ caller'[i] = "cancelled" /\ queue' = queue]_vars

\* an item whose caller waited in put is in the queue, its handle pending
C10_Witness ==
    \E i \in blocked :
        /\ caller[i] = "awaiting"
        /\ \E p \in 1..Len(queue) : queue[p] = i
        /\ handle[i].state = "PENDING"

\* C11: while stop() is not called and every executor call returns or raises,
\* every WorkItem put on the queue has its handle resolved in the end: with
\* its result, with the error of its batch, or, when its own caller gave up
\* the wait, with the cancellation that caller asked for
C11_EventuallyResolved ==
    \A i \in Items : Enqueued(i) ~> Done(handle[i])

\* every item was admitted and has been answered by the loop, which is idle
C11_Witness ==
    /\ pc = "idle"
    /\ queue = <<>>
    /\ \A i \in Items : Enqueued(i) /\ handle[i].state = "FINISHED"

\* C12: a WorkItem is handed to the executor at most once: once it is in a
\* batch it keeps that batch and never returns to the queue, and the items
\* of a batch whose executor call failed are not collected or run again
C12_AtMostOneInvocation ==
    [][/\ \A i \in Items : runs'[i] <= 1
       /\ \A i \in Items : batch_of[i] # 0 =>
             /\ batch_of'[i] = batch_of[i]
             /\ ~InBatch(queue', i)
       /\ \A i \in Items : runs[i] = 1 =>
             /\ ~(pc' = "collecting" /\ InBatch(batch_data', i))
             /\ (InBatch(batch_data', i) => batch_data' = batch_data)]_vars

\* the batch of item i failed, and a later batch is with the executor
C12_Witness ==
    \E i, j \in Items :
        /\ handle[i].state = "FINISHED"
        /\ handle[i].exception # <<>>
        /\ runs[i] = 1
        /\ pc = "executing"
        /\ InBatch(batch_data, j)
        /\ runs[j] = 1
        /\ batch_of[j] > batch_of[i]

C15_WindowSeparatesBatches ==
    /\ []((pc \in {"collecting", "executing", "returned"} /\ deadline_mark # -1) =>
            /\ \A k \in 1..Len(batch_data) : EnqPos(batch_data[k]) <= deadline_mark
            /\ \A i \in Items : (Enqueued(i) /\ EnqPos(i) > deadline_mark) => batch_of[i] = 0)
    /\ []((pc = "collecting" /\ remaining <= 0) =>
            /\ ENABLED LoopRunBatch
            /\ ~ENABLED LoopCollect)
    /\ [][/\ (pc = "collecting" /\ remaining <= 0 /\ pc' = "executing") =>
                /\ batch_data' = batch_data
                /\ inflight' = inflight + 1
                /\ all_texts' = Flatten(BatchTexts(batch_data, cnt)).all_texts
          /\ \A i \in Items : (batch_of[i] = 0 /\ batch_of'[i] # 0 /\ deadline_mark # -1) =>
                FALSE
          /\ \A i \in Items : (batch_of[i] = 0 /\ batch_of'[i] # 0 /\ pc = "idle") =>
                /\ batch_of'[i] = batch_no + 1
                /\ batch_data' = <<i>>
                /\ \A j \in Items \ {i} : batch_of'[j] # batch_of'[i]]_vars

\* one item runs alone after its window elapsed while a later item waits
C15_Witness ==
    /\ pc = "executing"
    /\ MaxBatchSize >= 2
    /\ Len(batch_data) = 1
    /\ deadline_mark # -1
    /\ queue # <<>>
    /\ EnqPos(queue[1]) > deadline_mark

\* C16: max_batch_size = 2, A with 2 sub-units first, B with 1 sub-unit
\* enqueued before the deadline of A's cycle: one executor call, started
\* while time remains, with input [A0, A1, B0] and offsets (0,2), (2,3)
C16_TwoItemScenario ==
    (/\ kind = "embed"
     /\ MaxBatchSize = 2
     /\ Running
     /\ batch_no = 1
     /\ Len(enq_order) >= 2
     /\ enq_order[1] = 1
     /\ enq_order[2] = 2
     /\ cnt[1] = 2
     /\ cnt[2] = 1
     /\ (deadline_mark = -1 \/ deadline_mark >= 2)) =>
        /\ batch_data = <<1, 2>>
        /\ all_texts = <<<<1, 1>>, <<1, 2>>, <<2, 1>>>>
        /\ request_indices = <<<<0, 2>>, <<2, 3>>>>
        /\ remaining > 0
        /\ deadline_mark = -1
        /\ runs[1] = 1
        /\ runs[2] = 1
        /\ inflight <= 1

\* B arrived one tick into the window and the call was made before the deadline
C16_Witness ==
    /\ kind = "embed"
    /\ pc = "executing"
    /\ batch_no = 1
    /\ batch_data = <<1, 2>>
    /\ cnt[1] = 2
    /\ cnt[2] = 1
    /\ remaining = BatchTimeout - 1
    /\ remaining > 0
    /\ request_indices = <<<<0, 2>>, <<2, 3>>>>

\* C17: when stop() is called, every WorkItem still waiting in the queue
\* has its handle resolved (with a shutdown error), none stays pending
C17_QueuedResolvedOnStop ==
    [][(pc # "stopped" /\ pc' = "stopped") =>
          \A k \in 1..Len(queue') : handle'[queue'[k]].state # "PENDING"]_vars

\* C18: when stop() is called while the loop is collecting, the handles of
\* the items already collected are resolved (with a shutdown error)
C18_CollectedResolvedOnStop ==
    [][(pc = "collecting" /\ pc' = "stopped") =>
          \A k \in 1..Len(batch_data) : handle'[batch_data[k]].state # "PENDING"]_vars

\* C19: when stop() is called while a batch is with the executor, stop()
\* returns only after the executor call has ended and its outcome has been
\* dispatched to the handles of the batch
C19_StopAwaitsInFlightBatch ==
    [][(pc \in {"executing", "returned"} /\ pc' = "stopped") =>
          /\ inflight' = 0
          /\ \A k \in 1..Len(batch_data) : handle'[batch_data[k]].state # "PENDING"]_vars

\* C20: stop() can be called in every loop state, before start() and again
\* after a stop: no call raises, after a call no loop is running, and a call
\* that finds no running loop changes nothing
C20_StopIdempotent ==
    /\ [](~stop_raised)
    /\ [](task_end # "none" => pc = "stopped")
    /\ [][stops' # stops =>
            /\ stops' = stops + 1
            /\ pc' \in {"stopped", "not_started"}
            /\ (pc = "not_started" => pc' = "not_started")
            /\ (pc \in {"stopped", "not_started"} => UNCHANGED allButStops)]_vars

\* stop() was called while a batch was with the executor and then again
C20_Witness ==
    /\ stops = MaxStops
    /\ MaxStops >= 2
    /\ pc = "stopped"
    /\ task_end = "cancelled"
    /\ ~stop_raised

\* C21: a caller that cancels its wait does not take its WorkItem back: the
\* item leaves the queue only into a batch, its texts are flattened at its
\* range like those of any item, the batch and the ranges are untouched by
\* the cancellation, and dispatch leaves the cancelled handle as it is,
\* answers the other handles from their own ranges and goes on to idle
C21_CancelKeepsItemInBatch ==
    /\ [](\A i \in Items : Enqueued(i) => (InBatch(queue, i) \/ batch_of[i] # 0))
    /\ [](Running =>
            \A k \in 1..Len(batch_data) :
               /\ request_indices[k] = <<SumCnt(batch_data, cnt, k - 1),
                                          SumCnt(batch_data, cnt, k)>>
               /\ Slice(all_texts, request_indices[k][1], request_indices[k][2])
                     = Texts(batch_data[k], cnt[batch_data[k]]))
    /\ [][/\ \A i \in Items : (caller[i] = "awaiting" /\ caller'[i] = "cancelled") =>
                /\ UNCHANGED <<queue, batch_data, all_texts, request_indices, exec_out, pc>>
                /\ \A j \in Items \ {i} : handle'[j] = handle[j]
          /\ (pc = "returned" /\ pc' \notin {"returned", "stopped"}) =>
                /\ pc' = "idle"
                /\ \A k \in 1..Len(batch_data) :
                      IF handle[batch_data[k]].state = "CANCELLED"
                      THEN handle'[batch_data[k]] = handle[batch_data[k]]
                      ELSE /\ handle'[batch_data[k]].state = "FINISHED"
                           /\ exec_out[1].ok =>
                                 handle'[batch_data[k]].result =
                                    <<Response(k, exec_out[1], request_indices, all_texts)>>]_vars

\* a cancelled item heads a batch whose call succeeded; the next item's
\* range starts after the cancelled item's sub-units
C21_Witness ==
    /\ pc = "returned"
    /\ exec_out[1].ok
    /\ Len(batch_data) >= 2
    /\ handle[batch_data[1]].state = "CANCELLED"
    /\ handle[batch_data[2]].state = "PENDING"
    /\ request_indices[2][1] = cnt[batch_data[1]]

\* C22: every WorkItem that reaches a queue has at least one sub-unit and no
\* more than the limit of its endpoint: /embed accepts 1..128 texts, /rerank
\* 1..100 documents; a request outside that is answered 400 and leaves the
\* queue, the handles and the callers as they were
C22_OnlyValidRequestsEnqueued ==
    /\ [](\A i \in Items : caller[i] # "new" => (1 <= cnt[i] /\ cnt[i] <= MaxTexts))
    /\ [](\A n \in 0..(MaxTexts + 1) :
             Accepts(n) <=> (1 <= n /\ n <= (IF kind = "embed" THEN 128 ELSE 100)))
    /\ [](http_status \in {0, 400})
    /\ [][http_status' # http_status =>
             /\ http_status' = 400
             /\ UNCHANGED <<queue, enq_order, handle, caller, cnt, blocked>>]_vars

\* a request was refused while an accepted one waits in the queue
C22_Witness ==
    /\ http_status = 400
    /\ queue # <<>>
    /\ \A k \in 1..Len(queue) : cnt[queue[k]] >= 1

\* C23: the result set on the handle of a rerank WorkItem with n documents
\* is a list of n (index, score) pairs: the indices are 0..n-1, each once,
\* counted within the item's own documents wherever the item sits in the
\* batch; the score at index j is the executor's score for the item's j-th
\* pair; the list is in order of non-increasing score
C23_RerankResultShape ==
    (kind = "rerank" /\ last # <<>> /\ last[1].out.ok) =>
        \A k \in 1..Len(last[1].items) :
            LET i == LastItem(k)
                n == cnt[i]
                start == SumCnt(last[1].items, cnt, k - 1)
            IN handle[i].result # <<>> =>
                 LET r == handle[i].result[1].results IN
                   /\ Len(r) = n
                   /\ {r[p][1] : p \in 1..Len(r)} = 0..(n - 1)
                   /\ \A p \in 1..Len(r) : r[p][2] = last[1].out.scores[start + r[p][1] + 1]
                   /\ \A p \in 1..Len(r) : \A q \in p..Len(r) : r[p][2] >= r[q][2]

\* the second item of a rerank batch got its documents back in another order
\* than it sent them, with indices of its own list
C23_Witness ==
    /\ kind = "rerank"
    /\ last # <<>>
    /\ last[1].out.ok
    /\ Len(last[1].items) >= 2
    /\ cnt[LastItem(2)] >= 2
    /\ handle[LastItem(2)].result # <<>>
    /\ handle[LastItem(2)].result[1].results[1][1] # 0
    /\ handle[LastItem(2)].result[1].results[1][2] > handle[LastItem(2)].result[1].results[2][2]

\* ------------------------------------------------------------ HistoryManager
\* Message(role=role, content=content); a content is named by its number
\* among the messages added for the user since the user's history was cleared
Message(role, content) == [role |-> role, content |-> content]

\* s[k:] of a Python list
SliceFrom(s, k) ==
    LET n == Len(s)
        start == IF k < 0 THEN (IF n + k < 0 THEN 0 ELSE n + k)
                          ELSE (IF k > n THEN n ELSE k)
    IN SubSeq(s, start + 1, n)

\* Conversation.add_message, for a conversation of max_turns t
AddMessage(msgs, t, role, content) ==
    LET m == Append(msgs, Message(role, content))
        max_messages == t * 2
    IN IF Len(m) > max_messages THEN SliceFrom(m, -max_messages) ELSE m

\* self._conversations[user_id] of the defaultdict: a missing key is inserted
\* with an empty Conversation
Touch(convs, u) == [convs EXCEPT ![u].present = TRUE]

\* Conversation.get_history of a user's conversation
Messages(convs, u) == convs[u].messages

\* HistoryManager.get_user_count, and get_stats()["user_count"]
GetUserCount(convs) == Cardinality({u \in Users : convs[u].present})

\* the number of the next message added for u
NextContent(u) == Len(added[u]) + 1

\* HistoryManager.add_user_message(u, content)
AddUserMessage(u) ==
    /\ Len(added[u]) < MaxMessages
    /\ conversations' = [Touch(conversations, u) EXCEPT
                            ![u].messages = AddMessage(@, max_turns, "user", NextContent(u))]
    /\ added' = [added EXCEPT ![u] = Append(@, Message("user", NextContent(u)))]
    /\ messaged' = messaged \cup {u}
    /\ UNCHANGED <<max_turns, asking, reply>>
    /\ UNCHANGED <<batcherVars, ingestVars>>
    /\ UNCHANGED cacheVars

\* HistoryManager.add_assistant_message(u, content)
AddAssistantMessage(u) ==
    /\ Len(added[u]) < MaxMessages
    /\ conversations' = [Touch(conversations, u) EXCEPT
                            ![u].messages = AddMessage(@, max_turns, "assistant", NextContent(u))]
    /\ added' = [added EXCEPT ![u] = Append(@, Message("assistant", NextContent(u)))]
    /\ messaged' = messaged \cup {u}
    /\ UNCHANGED <<max_turns, asking, reply>>
    /\ UNCHANGED <<batcherVars, ingestVars>>
    /\ UNCHANGED cacheVars

\* HistoryManager.get_history(u)
GetHistory(u) ==
    /\ conversations' = Touch(conversations, u)
    /\ UNCHANGED <<max_turns, added, messaged, asking, reply>>
    /\ UNCHANGED <<batcherVars, ingestVars>>
    /\ UNCHANGED cacheVars

\* clear_history that empties every conversation
ClearHistory_every(u) ==
    /\ conversations' = [v \in Users |-> [Touch(conversations, u)[v] EXCEPT !.messages = <<>>]]
    /\ added' = [added EXCEPT ![u] = <<>>]
    /\ UNCHANGED <<max_turns, messaged, asking, reply>>
    /\ UNCHANGED <<batcherVars, ingestVars>>
    /\ UNCHANGED cacheVars

\* HistoryManager.clear_history(u), which clear_command calls
ClearHistory(u) ==
    /\ conversations' = [Touch(conversations, u) EXCEPT ![u].messages = <<>>]
    /\ added' = [added EXCEPT ![u] = <<>>]
    /\ UNCHANGED <<max_turns, messaged, asking, reply>>
    /\ UNCHANGED <<batcherVars, ingestVars>>
    /\ UNCHANGED cacheVars

\* HistoryManager.clear_all()
ClearAll ==
    /\ conversations' = [u \in Users |-> [present |-> FALSE, messages |-> <<>>]]
    /\ added' = [u \in Users |-> <<>>]
    /\ messaged' = {}
    /\ UNCHANGED <<max_turns, asking, reply>>
    /\ UNCHANGED <<batcherVars, ingestVars>>
    /\ UNCHANGED cacheVars

\* ------------------------------------------------------------ /ask
\* ask_command without context.args: the usage reply
AskUsage(u) ==
    /\ reply' = "usage"
    /\ UNCHANGED <<max_turns, conversations, added, messaged, asking>>
    /\ UNCHANGED <<batcherVars, ingestVars>>
    /\ UNCHANGED cacheVars

\* ask_command with a question, up to the orchestrator's stream: get_history
AskBegin(u) ==
    /\ u \notin asking
    /\ asking' = asking \cup {u}
    /\ conversations' = Touch(conversations, u)
    /\ reply' = "typing"
    /\ UNCHANGED <<max_turns, added, messaged>>
    /\ UNCHANGED <<batcherVars, ingestVars>>
    /\ UNCHANGED cacheVars

\* ask_command that records the query although the orchestrator raised
AskFail_records(u) ==
    /\ u \in asking
    /\ Len(added[u]) < MaxMessages
    /\ asking' = asking \ {u}
    /\ conversations' = [Touch(conversations, u) EXCEPT
                            ![u].messages = AddMessage(@, max_turns, "user", NextContent(u))]
    /\ added' = [added EXCEPT ![u] = Append(@, Message("user", NextContent(u)))]
    /\ messaged' = messaged \cup {u}
    /\ reply' = "error"
    /\ UNCHANGED max_turns
    /\ UNCHANGED <<batcherVars, ingestVars>>
    /\ UNCHANGED cacheVars

\* ask_command, the orchestrator raised: the error reply
AskFail(u) ==
    /\ u \in asking
    /\ asking' = asking \ {u}
    /\ reply' = "error"
    /\ UNCHANGED <<max_turns, conversations, added, messaged>>
    /\ UNCHANGED <<batcherVars, ingestVars>>
    /\ UNCHANGED cacheVars

\* ask_command, the stream ended: add_user_message(query), then
\* add_assistant_message(response), then the reply
AskSucceed(u) ==
    /\ u \in asking
    /\ Len(added[u]) + 2 <= MaxMessages
    /\ asking' = asking \ {u}
    /\ LET q == NextContent(u)
           r == NextContent(u) + 1
           afterQuery == AddMessage(Messages(Touch(conversations, u), u), max_turns, "user", q)
       IN /\ conversations' = [Touch(conversations, u) EXCEPT
                                  ![u].messages = AddMessage(afterQuery, max_turns, "assistant", r)]
          /\ added' = [added EXCEPT
                          ![u] = @ \o <<Message("user", q), Message("assistant", r)>>]
    /\ messaged' = messaged \cup {u}
    /\ reply' = "answer"
    /\ UNCHANGED max_turns
    /\ UNCHANGED <<batcherVars, ingestVars>>
    /\ UNCHANGED cacheVars

\* the values of settings.max_history_turns that are not negative
TurnLimits == 0..MaxTurns

\* HistoryManager(max_turns=settings.max_history_turns), for every limit
InitHistoryLimits ==
    /\ InitBatcher
    /\ peer = NoPeer
    /\ InitIngest
    /\ kind = "embed"
    /\ InitCache(MaxCacheSize)
    /\ \E t \in TurnLimits : InitHistory(t)

NextHistory ==
    \/ \E u \in Users : AddUserMessage(u)
    \/ \E u \in Users : AddAssistantMessage(u)
    \/ \E u \in Users : GetHistory(u)
    \/ \E u \in Users : ClearHistory(u)
    \/ ClearAll
    \/ \E u \in Users : AskUsage(u)
    \/ \E u \in Users : AskBegin(u)
    \/ \E u \in Users : AskFail(u)
    \/ \E u \in Users : AskSucceed(u)

SpecHistory == InitHistoryLimits /\ [][NextHistory]_vars

\* ------------------------------------------------------------ ingestion
\* QdrantDB.file_exists: a scroll over the parents collection, filtered by
\* file_hash, limit 1
FileExists(h) == \E r \in parents_db : r.file_hash = h

\* client.upsert: points are stored under their ids
Upsert(collection, points) == collection \cup points

Idle == [pc |-> "none", doc |-> NoDoc, source |-> "none"]
Ended(result) == [result |-> result, doc |-> ingest.doc, stage |-> ingest.pc]
otherVars == <<batcherVars, cacheVars, histVars>>

\* seed_sample_documents: the next file of the loop; its hash is computed and
\* file_exists asked next
SeedBegin ==
    /\ ingest.pc = "none"
    /\ seeds # <<>>
    /\ ingestions < MaxIngestions
    /\ ingest' = [pc |-> "checking", doc |-> Head(seeds), source |-> "seed"]
    /\ seeds' = Tail(seeds)
    /\ ingestions' = ingestions + 1
    /\ UNCHANGED <<chunks_db, parents_db, outcome>>
    /\ UNCHANGED otherVars

\* handle_document, once seeding is over and the application polls: updates
\* are handled one at a time.  The suffix and the size are validated, then the
\* file is downloaded.
UploadBegin(d) ==
    /\ ingest.pc = "none"
    /\ seeds = <<>>
    /\ ingestions < MaxIngestions
    /\ ingestions' = ingestions + 1
    /\ IF d.ext \notin ALLOWED_EXTENSIONS \/ (d.size # 0 /\ d.size > MAX_FILE_SIZE)
       THEN /\ outcome' = [result |-> "rejected", doc |-> d, stage |-> "none"]
            /\ UNCHANGED ingest
       ELSE /\ ingest' = [pc |-> "checking", doc |-> d, source |-> "upload"]
            /\ UNCHANGED outcome
    /\ UNCHANGED <<chunks_db, parents_db, seeds>>
    /\ UNCHANGED otherVars

\* if db.file_exists(file_hash): the file is reported as already indexed and
\* the ingestion ends
Check ==
    /\ ingest.pc = "checking"
    /\ IF FileExists(Sha256(ingest.doc.bytes))
       THEN /\ outcome' = Ended("already")
            /\ ingest' = Idle
       ELSE /\ ingest' = [ingest EXCEPT !.pc = "converting"]
            /\ UNCHANGED outcome
    /\ UNCHANGED <<chunks_db, parents_db, seeds, ingestions>>
    /\ UNCHANGED otherVars

\* MarkItDown().convert: no text ends the ingestion
Convert ==
    /\ ingest.pc = "converting"
    /\ IF HasText(ingest.doc.bytes)
       THEN /\ ingest' = [ingest EXCEPT !.pc = "chunking"]
            /\ UNCHANGED outcome
       ELSE /\ outcome' = Ended("no_text")
            /\ ingest' = Idle
    /\ UNCHANGED <<chunks_db, parents_db, seeds, ingestions>>
    /\ UNCHANGED otherVars

\* chunking_engine.chunk_document: no children ends the ingestion
Chunk ==
    /\ ingest.pc = "chunking"
    /\ IF Children(ingest.doc.bytes) # {}
       THEN /\ ingest' = [ingest EXCEPT !.pc = "embedding"]
            /\ UNCHANGED outcome
       ELSE /\ outcome' = Ended("no_chunks")
            /\ ingest' = Idle
    /\ UNCHANGED <<chunks_db, parents_db, seeds, ingestions>>
    /\ UNCHANGED otherVars

\* await ml_client.embed(chunk_texts) returns the vectors
Embed ==
    /\ ingest.pc = "embedding"
    /\ ingest' = [ingest EXCEPT !.pc = "storing_chunks"]
    /\ UNCHANGED <<chunks_db, parents_db, seeds, outcome, ingestions>>
    /\ UNCHANGED otherVars

\* an exception before the store calls: the download, file_exists, the
\* conversion, the chunking or the embedding request fails.  seed logs it and
\* goes on with the next file, handle_document reports it and re-raises.
IngestFail ==
    /\ ingest.pc \in {"checking", "converting", "chunking", "embedding"}
    /\ outcome' = Ended("failed")
    /\ ingest' = Idle
    /\ UNCHANGED <<chunks_db, parents_db, seeds, ingestions>>
    /\ UNCHANGED otherVars

StoreChunks_skipped ==
    /\ ingest.pc = "storing_chunks"
    /\ ingest' = [ingest EXCEPT !.pc = "storing_parents"]
    /\ UNCHANGED <<chunks_db, parents_db, seeds, outcome, ingestions>>
    /\ UNCHANGED otherVars

\* db.store_chunks(chunk_dicts, dense_vecs, sparse_vecs): one upsert
StoreChunks ==
    /\ ingest.pc = "storing_chunks"
    /\ chunks_db' = Upsert(chunks_db, Children(ingest.doc.bytes))
    /\ ingest' = [ingest EXCEPT !.pc = "storing_parents"]
    /\ UNCHANGED <<parents_db, seeds, outcome, ingestions>>
    /\ UNCHANGED otherVars

\* store_chunks raises: the request did not reach the server, or it was
\* applied and the response was lost
StoreChunksFail ==
    /\ ingest.pc = "storing_chunks"
    /\ chunks_db' \in {chunks_db, Upsert(chunks_db, Children(ingest.doc.bytes))}
    /\ outcome' = Ended("failed")
    /\ ingest' = Idle
    /\ UNCHANGED <<parents_db, seeds, ingestions>>
    /\ UNCHANGED otherVars

\* db.store_parents(parent_dicts): one upsert.  seed_sample_documents is then
\* done with the file, handle_document goes on to report the success.
StoreParents ==
    /\ ingest.pc = "storing_parents"
    /\ parents_db' = Upsert(parents_db, Parents(ingest.doc.bytes))
    /\ IF ingest.source = "seed"
       THEN /\ outcome' = Ended("indexed")
            /\ ingest' = Idle
       ELSE /\ ingest' = [ingest EXCEPT !.pc = "replying"]
            /\ UNCHANGED outcome
    /\ UNCHANGED <<chunks_db, seeds, ingestions>>
    /\ UNCHANGED otherVars

\* store_parents raises, the request applied or not
StoreParentsFail ==
    /\ ingest.pc = "storing_parents"
    /\ parents_db' \in {parents_db, Upsert(parents_db, Parents(ingest.doc.bytes))}
    /\ outcome' = Ended("failed")
    /\ ingest' = Idle
    /\ UNCHANGED <<chunks_db, seeds, ingestions>>
    /\ UNCHANGED otherVars

\* await progress_msg.edit_text("Document indexed successfully"), which
\* returns or raises
Reply ==
    /\ ingest.pc = "replying"
    /\ \E r \in {"indexed", "failed"} : outcome' = Ended(r)
    /\ ingest' = Idle
    /\ UNCHANGED <<chunks_db, parents_db, seeds, ingestions>>
    /\ UNCHANGED otherVars

\* the process ends at any point and is run again: the collections are kept
\* by the Qdrant server, run() seeds the sample files again
ProcessRestart ==
    /\ outcome' = IF ingest.pc = "none" THEN outcome ELSE Ended("killed")
    /\ ingest' = Idle
    /\ seeds' = SampleDocs
    /\ UNCHANGED <<chunks_db, parents_db, ingestions>>
    /\ UNCHANGED otherVars

NextIngest ==
    \/ SeedBegin
    \/ \E d \in Docs : UploadBegin(d)
    \/ Check
    \/ Convert
    \/ Chunk
    \/ Embed
    \/ IngestFail
    \/ StoreChunks
    \/ StoreChunksFail
    \/ StoreParents
    \/ StoreParentsFail
    \/ Reply
    \/ ProcessRestart

SpecIngest == Init /\ [][NextIngest]_vars

\* ------------------------------------------------------------ EmbeddingCache claims
\* the entries of a cache, without their order
Entries(c) == {c[p] : p \in 1..Len(c)}

\* the least recently used key, where a use is a get hit or a put of the key
LRUKeys == IF use_order = <<>> THEN {} ELSE {use_order[1]}

\* a put of query q with value v, by the caller or by the orchestrator after a
\* miss, that finds q's key absent and max_size entries in the cache
PutNewAtCapacity(q, v) ==
    /\ ~HasKey(cache, MakeKey(q))
    /\ Len(cache) = max_size
    /\ \/ CachePut(q, v)
       \/ v = EmbedSingle(q) /\ GetQueryEmbedding(q)

\* C24: a put of a new key into a cache that holds max_size entries completes,
\* and afterwards the cache holds the new entry and every entry it held before
\* except the least recently used one (a use being a get hit or a put)
C24_PutEvictsLRU ==
    [][\A q \in Queries : \A v \in Values \cup {EmbedSingle(q)} :
          PutNewAtCapacity(q, v) =>
             /\ ~cache_op'.raised
             /\ Entries(cache') =
                   (Entries(cache) \ {e \in Entries(cache) : e.key \in LRUKeys})
                       \cup {[key |-> MakeKey(q), val |-> v]}
             /\ Len(cache') = Len(cache)]_vars

\* a put of query q with value v that finds q's key in the cache
PutPresent(q, v) == HasKey(cache, MakeKey(q)) /\ CachePut(q, v)

\* a put on a key the cache holds stores the new value under the key, keeps
\* every other entry and leaves the size as it was
C25_PutReplaces ==
    \A q \in Queries : \A v \in Values :
       PutPresent(q, v) =>
          /\ Size(cache') = Size(cache)
          /\ Entries(cache') =
                {e \in Entries(cache) : e.key # MakeKey(q)} \cup {[key |-> MakeKey(q), val |-> v]}

\* C25 as stated: whatever max_size the cache was built with, after any
\* sequence of put, get and clear its size is at most max_size, and a put on a
\* key already present replaces the value without changing the size
C25_SizeNeverExceedsMaxSize ==
    /\ [](Size(cache) <= max_size)
    /\ [][C25_PutReplaces]_vars

\* C25, amended: for every max_size that is not negative, after any sequence
\* of put, get and clear the size is at most max_size, and a put on a key
\* already present replaces the value without changing the size
C25_SizeBoundedForNaturalMaxSize ==
    /\ [](max_size >= 0 => Size(cache) <= max_size)
    /\ [][C25_PutReplaces]_vars

\* a full cache of two entries after a put that found its key present and
\* stored another value than the ML API gives for the key's text
C25_Witness ==
    /\ max_size = 2
    /\ Size(cache) = 2
    /\ cache_op.op = "put"
    /\ cache_op.found
    /\ Lookup(cache, cache_op.key) # EmbedSingle(cache_op.key[2])

\* the cache holds an entry for the normalized text of q: q stripped and
\* lower-cased
Cached(q) == \E p \in 1..Len(cache) : cache[p].key = <<"md5", Lower(Strip(q))>>

\* C26: with the orchestrator's queries run one after another, embed_single
\* is called only by a query whose normalized text the cache does not hold; a
\* query whose normalized text is still cached makes no call and gets the
\* cached embedding
C26_EmbedSingleOnlyOnMiss ==
    [][/\ embed_calls' # embed_calls =>
             /\ embed_calls' = embed_calls + 1
             /\ \E q \in Queries : ~Cached(q) /\ GetQueryEmbedding(q)
       /\ \A q \in Queries :
             (Cached(q) /\ GetQueryEmbedding(q)) =>
                 /\ embed_calls' = embed_calls
                 /\ cache_op'.ret = <<Lookup(cache, <<"md5", Lower(Strip(q))>>)>>]_vars

\* a query was answered from the cache with the embedding of a text that is
\* not its own normalized text, after one call of embed_single
C26_Witness ==
    /\ cache_op.op = "query"
    /\ cache_op.found
    /\ embed_calls = 1
    /\ cache_op.ret = <<EmbedSingle(<<"A">>)>>
    /\ cache_op.key = <<"md5", <<"a">>>>

\* ------------------------------------------------------------ HistoryManager claims
\* the last n elements of s, all of s when it has fewer
LastN(s, n) == IF n >= Len(s) THEN s ELSE SubSeq(s, Len(s) - n + 1, Len(s))

\* C27: whatever max_turns >= 0 a conversation was built with, after any
\* sequence of add_message calls it holds at most 2*max_turns messages, and
\* they are the most recently added ones in the order they were added
C27_HoldsMostRecentMessages ==
    \A u \in Users :
       /\ Len(Messages(conversations, u)) <= 2 * max_turns
       /\ Messages(conversations, u) = LastN(added[u], 2 * max_turns)

\* C28: add_user_message, add_assistant_message and clear_history for one
\* user leave what is stored for every other user as it was
C28_OtherUsersUnchanged ==
    [][\A u \in Users :
          (AddUserMessage(u) \/ AddAssistantMessage(u) \/ ClearHistory(u)) =>
              \A v \in Users \ {u} : conversations'[v] = conversations[v]]_vars

\* one user's history was cleared after messages had been added to it, while
\* the other user's messages are still stored
C28_Witness ==
    /\ 102 \in messaged
    /\ conversations[102].present
    /\ Messages(conversations, 102) = <<>>
    /\ Len(Messages(conversations, 101)) = 2

\* C29: get_user_count() is the number of distinct user ids for which a
\* message was added since the last clear_all()
C29_UserCountIsUsersWithMessages ==
    GetUserCount(conversations) = Cardinality(messaged)

\* C30: a successful /ask leaves the caller's history ending with the query
\* and then the response, after the messages the history held before (all of
\* them when the limit leaves room); an /ask whose orchestrator raised, or
\* that came without a question, leaves the caller's history as it was
C30_AskUpdatesHistory ==
    [][\A u \in Users :
          /\ AskSucceed(u) =>
                LET old == Messages(conversations, u)
                    new == Messages(conversations', u)
                    q == Message("user", NextContent(u))
                    r == Message("assistant", NextContent(u) + 1)
                IN /\ Len(new) >= 2
                   /\ SubSeq(new, Len(new) - 1, Len(new)) = <<q, r>>
                   /\ SubSeq(new, 1, Len(new) - 2) = LastN(old, Len(new) - 2)
                   /\ Len(old) + 2 <= 2 * max_turns => new = old \o <<q, r>>
          /\ (AskBegin(u) \/ AskFail(u) \/ AskUsage(u)) =>
                Messages(conversations', u) = Messages(conversations, u)]_vars

\* a successful /ask of a user whose history held one message: the history
\* now is the query and the response, the older message dropped by the limit
C30_Witness ==
    /\ max_turns = 1
    /\ reply = "answer"
    /\ added[101] = <<Message("assistant", 1), Message("user", 2), Message("assistant", 3)>>
    /\ Messages(conversations, 101) = <<Message("user", 2), Message("assistant", 3)>>

\* ------------------------------------------------------------ deadline and shutdown claims
\* C31: the time left of a cycle's window is batch_window when the first item
\* is dequeued and only goes down while the cycle collects: an item collected
\* later leaves it as it is; no item is collected once it has run out, and
\* then the cycle can only go on to execute its batch
C31_DeadlineFixedOnce ==
    /\ [][/\ (pc = "idle" /\ pc' = "collecting") => remaining' = BatchTimeout
          /\ (pc = "collecting" /\ pc' = "collecting") =>
                /\ remaining' <= remaining
                /\ Len(batch_data') > Len(batch_data) =>
                      (remaining' = remaining /\ remaining > 0)]_vars
    /\ []((pc = "collecting" /\ remaining <= 0) =>
             (~ENABLED LoopCollect /\ ENABLED LoopRunBatch))

\* a cycle holds a second item and part of its window has passed, part is left
C31_Witness ==
    /\ pc = "collecting"
    /\ Len(batch_data) >= 2
    /\ remaining > 0
    /\ remaining < BatchTimeout

\* C32: a stop() that finds the loop collecting ends the loop task without an
\* executor invocation for the items collected so far: none begins with the
\* stop, and none begins afterwards
C32_StopWhileCollectingSkipsBatch ==
    /\ [][(pc = "collecting" /\ pc' = "stopped") =>
             /\ inflight' = inflight
             /\ runs' = runs
             /\ task_end' = "finished"]_vars
    /\ [][pc = "stopped" => (pc' = "stopped" /\ runs' = runs /\ inflight' <= inflight)]_vars

\* the loop was stopped while it collected: an item it had taken from the
\* queue was never part of an executor input
C32_Witness ==
    /\ pc = "stopped"
    /\ task_end = "finished"
    /\ \E i \in Items : batch_of[i] # 0 /\ runs[i] = 0 /\ handle[i].state = "PENDING"

\* C33: a stop() can be made whenever the loop waits for the first item of a
\* cycle; it ends the loop task, which leaves by `break`, returns without
\* raising, and takes nothing from the queue
C33_StopWhileIdleTerminates ==
    /\ []((pc = "idle" /\ stops < MaxStops) => ENABLED Stop)
    /\ [][(pc = "idle" /\ pc' # "idle" /\ stops' # stops) =>
             /\ pc' = "stopped"
             /\ task_end' = "finished"
             /\ stop_raised' = stop_raised
             /\ stops' = stops + 1
             /\ queue' = queue
             /\ handle' = handle]_vars

\* the loop was stopped before it ever dequeued an item, with an item in the
\* queue, and stop() returned
C33_Witness ==
    /\ pc = "stopped"
    /\ batch_no = 0
    /\ task_end = "finished"
    /\ stops = 1
    /\ ~stop_raised
    /\ queue # <<>>

\* ------------------------------------------------------------ dispatch claims
\* the handles after the dispatcher is run once more for the batch dispatched
\* last, with the executor outcome it was dispatched with
Redispatched ==
    LET b == last[1] IN
    IF b.out.ok
    THEN DispatchSuccess(handle, b.items, b.out, b.indices, b.texts)
    ELSE DispatchFailure(handle, b.items, b.out.err[1])

\* C35: once a batch has been dispatched, running the dispatcher again for it
\* changes no handle and raises nothing, be it with the same executor outcome
\* or through the except branch with an error
C35_RedispatchIsNoOp ==
    last # <<>> =>
        /\ Redispatched = handle
        /\ DispatchFailure(handle, last[1].items, <<"error", 0>>) = handle
        /\ ~DispatchRaises(handle, last[1].items)

\* a dispatched batch of two whose handles are done in different ways: one
\* cancelled by its caller, one resolved by the dispatcher
C35_Witness ==
    /\ last # <<>>
    /\ Len(last[1].items) = 2
    /\ handle[LastItem(1)].state = "CANCELLED"
    /\ handle[LastItem(2)].state = "FINISHED"
    /\ pc = "idle"

\* the batch_size in the handle of the k-th item of the batch dispatched last
\* is the number of sub-units of the whole batch
HoldsBatchSize(k) ==
    /\ handle[LastItem(k)].result # <<>>
    /\ handle[LastItem(k)].result[1].batch_size =
           SumCnt(last[1].items, cnt, Len(last[1].items))

\* C38 as stated: after a successful executor call every handle of the batch
\* is resolved with batch_size equal to the sum of the sub-unit counts of all
\* the batch's WorkItems
C38_EveryHandleHoldsBatchSize ==
    (last # <<>> /\ last[1].out.ok) =>
        \A k \in 1..Len(last[1].items) : HoldsBatchSize(k)

\* C38 amended: after a successful executor call every handle of the batch
\* that its caller had not cancelled is resolved with batch_size equal to the
\* sum of the sub-unit counts of all the batch's WorkItems; a cancelled handle
\* holds no result
C38_HandlesHoldBatchSizeUnlessCancelled ==
    (last # <<>> /\ last[1].out.ok) =>
        \A k \in 1..Len(last[1].items) :
            \/ HoldsBatchSize(k)
            \/ /\ handle[LastItem(k)].state = "CANCELLED"
               /\ handle[LastItem(k)].result = <<>>

\* a successful batch of two items with different numbers of sub-units, both
\* resolved with the same batch_size, which is neither's own count
C38_Witness ==
    /\ last # <<>>
    /\ last[1].out.ok
    /\ Len(last[1].items) = 2
    /\ cnt[LastItem(1)] # cnt[LastItem(2)]
    /\ handle[LastItem(1)].result # <<>>
    /\ handle[LastItem(2)].result # <<>>
    /\ handle[LastItem(1)].result[1].batch_size = cnt[LastItem(1)] + cnt[LastItem(2)]
    /\ handle[LastItem(2)].result[1].batch_size = handle[LastItem(1)].result[1].batch_size

\* ------------------------------------------------------------ restart claims
\* the number of _process_loop tasks that have not ended
LoopsAlive ==
    (IF pc \in {"idle", "collecting", "executing", "returned"} THEN 1 ELSE 0) + extra_loops

\* C34: whatever start() and stop() calls were made, at most one loop task
\* of the scheduler is alive to take items from its queue
C34_AtMostOneLoop == LoopsAlive <= 1

\* the last call of start() or stop() was a stop() that has returned: the task
\* processing_loop_task refers to has ended, or there never was one
AfterStop ==
    /\ stops > 0
    /\ \/ bound_extra = "ended"
       \/ bound_extra = "no" /\ pc \in {"not_started", "stopped"}

\* C37: after stop() has returned and until start() is called again, no
\* executor invocation begins and no handle gets a result or an error; a
\* process() call made then puts its item in the queue when there is room,
\* with a handle that stays pending
C37_NothingRunsAfterStop ==
    [][AfterStop =>
          /\ inflight' <= inflight
          /\ runs' = runs
          /\ \A i \in Items : handle'[i].state = "FINISHED" => handle[i].state = "FINISHED"
          /\ (cnt' # cnt /\ ~QueueFull(queue)) =>
                /\ queue' = Append(queue, NextItem)
                /\ handle'[NextItem] = NewFuture]_vars


\* C36: the two schedulers share no state: every step (a submit, a batch
\* execution, an executor outcome or failure, a dispatch, a stop) changes
\* the Intake Queue, loop state and handles of at most one of them and leaves
\* the other's as they were, and turning from one to the other changes
\* neither; each may have its own executor invocation in flight at once
C36_SchedulersShareNoState ==
    [][/\ (Batcher("embed")' = Batcher("embed") \/ Batcher("rerank")' = Batcher("rerank"))
       /\ (kind' = kind => peer' = peer)
       /\ (kind' # kind => (peer' = View /\ Batcher("embed")' = Batcher("embed")
                                         /\ Batcher("rerank")' = Batcher("rerank")))]_vars

\* both schedulers have an executor invocation in flight, each on its own item
C36_Witness ==
    /\ pc = "executing" /\ inflight = 1
    /\ peer.pc = "executing" /\ peer.inflight = 1
    /\ batch_data # <<>> /\ peer.batch_data # <<>>
    /\ queue = <<>> /\ peer.queue = <<>>

\* ------------------------------------------------------------ ingestion claims
\* the file hashes of the documents
Hashes == {Sha256(d.bytes) : d \in Docs}
\* the child chunks chunk_document makes of the file with hash h
ChunksOfFile(h) == UNION {Children(d.bytes) : d \in {e \in Docs : Sha256(e.bytes) = h}}

\* C39: during ingestion by handle_document and seed_sample_documents, a
\* file's child chunks are stored before its parent records and file_exists
\* consults only the parent records: whenever file_exists(hash) is true the
\* chunks of the file are stored, parent records are written only by the
\* ingestion of a file whose chunks are stored, and after an ingestion (the
\* steps that follow a file_exists test answering no) fails or is killed
\* before store_parents, the file is reported as not indexed, and stays so
\* until a later ingestion stores its parent records
C39_FileExistsImpliesChunksStored ==
    /\ [](\A h \in Hashes : FileExists(h) =>
              (ChunksOfFile(h) # {} /\ ChunksOfFile(h) \subseteq chunks_db))
    /\ [][parents_db' # parents_db =>
             /\ ingest.pc = "storing_parents"
             /\ Children(ingest.doc.bytes) \subseteq chunks_db
             /\ chunks_db' = chunks_db]_vars
    /\ [][(/\ ingest.pc \in {"converting", "chunking", "embedding", "storing_chunks"}
            /\ ingest'.pc = "none"
            /\ outcome'.result \in {"failed", "killed"})
           => (/\ ~FileExists(Sha256(ingest.doc.bytes))'
               /\ parents_db' = parents_db
               /\ outcome'.doc = ingest.doc)]_vars

\* an ingestion failed in store_chunks after the upsert was applied: the
\* chunks of the file are stored and the file is not reported as indexed,
\* while another file is indexed
C39_Witness ==
    /\ outcome.result = "failed"
    /\ outcome.stage = "storing_chunks"
    /\ Children(outcome.doc.bytes) # {}
    /\ Children(outcome.doc.bytes) \subseteq chunks_db
    /\ ~FileExists(Sha256(outcome.doc.bytes))
    /\ \E h \in Hashes : FileExists(h)

====
